---------------------------- MODULE Spec2Model ----------------------------
(***************************************************************************)
(* TinyCompiled: the three-stage pipeline                                  *)
(*     source text -> Lexer -> tokens -> Parser -> Program -> NasmGenerator *)
(* modelled from src/src/lexer, src/src/parser and src/src/generator.      *)
(*                                                                         *)
(* A source is a sequence of one-character strings.  Python's None is the  *)
(* value NoneChar for characters and the record None for token and node    *)
(* values; a str value is StrV(s) with s its characters, an int value is   *)
(* IntV(n).                                                                *)
(***************************************************************************)
EXTENDS Integers, Sequences, FiniteSets, TLC

VARIABLES
    input,    \* how the source was written (never read by the pipeline)
    source,   \* the source string handed to Lexer(source_code)
    stage,    \* how far compile_tc_to_nasm has got, or which stage raised
    lexer,    \* the Lexer object's fields: pos, line, column, tokens
    parser,   \* the Parser object's fields: tokens, pos
    ast,      \* the Program returned by Parser.parse (None before)
    generator,\* the NasmGenerator object's fields
    exc,      \* the exception that ended the pipeline: kind and cited line
    cpu,      \* the machine that runs the emitted program (off until loaded)
    session,  \* the environment, standard output and the calls already returned
    asm       \* the lines of the text returned by NasmGenerator.generate

vars == <<input, source, stage, lexer, parser, ast, generator, exc, asm, cpu, session>>

-----------------------------------------------------------------------------
(* Values *)

NoneChar == "<None>"
None == [k |-> "none"]
StrV(s) == [k |-> "str", s |-> s]
IntV(n) == [k |-> "int", n |-> n]

IsInt(v) == v.k = "int"
IsStr(v) == v.k = "str"

NoExc == [kind |-> "", line |-> 0]

(* No process runs the emitted text until it is assembled and started. *)
PowerOff == [status |-> "off"]

-----------------------------------------------------------------------------
(* Characters: str.isdigit, str.isalpha, str.isalnum, str.isspace, upper *)

Digits == {"0", "1", "2", "3", "4", "5", "6", "7", "8", "9"}
LowerSeq == << "a", "b", "c", "d", "e", "f", "g", "h", "i", "j", "k", "l", "m",
               "n", "o", "p", "q", "r", "s", "t", "u", "v", "w", "x", "y", "z" >>
UpperSeq == << "A", "B", "C", "D", "E", "F", "G", "H", "I", "J", "K", "L", "M",
               "N", "O", "P", "Q", "R", "S", "T", "U", "V", "W", "X", "Y", "Z" >>
LowerLetters == {LowerSeq[i] : i \in 1..26}
UpperLetters == {UpperSeq[i] : i \in 1..26}

IsDigit(c) == c \in Digits
IsAlpha(c) == c \in LowerLetters \cup UpperLetters
IsAlnum(c) == IsAlpha(c) \/ IsDigit(c)
IsSpace(c) == c \in {" ", "\t", "\n", "\r"}

UpperChar(c) ==
    IF c \in LowerLetters
    THEN UpperSeq[CHOOSE i \in 1..26 : LowerSeq[i] = c]
    ELSE c
LowerChar(c) ==
    IF c \in UpperLetters
    THEN LowerSeq[CHOOSE i \in 1..26 : UpperSeq[i] = c]
    ELSE c

UpperOf(w) == [i \in 1..Len(w) |-> UpperChar(w[i])]
LowerOf(w) == [i \in 1..Len(w) |-> LowerChar(w[i])]

RECURSIVE Text(_)
Text(w) == IF w = <<>> THEN "" ELSE w[1] \o Text(Tail(w))

HexDigits == Digits \cup {"a", "b", "c", "d", "e", "f", "A", "B", "C", "D", "E", "F"}
BinDigits == {"0", "1"}
HexSeq == << "0", "1", "2", "3", "4", "5", "6", "7", "8", "9",
             "a", "b", "c", "d", "e", "f" >>
DigitVal(c) == (CHOOSE i \in 1..16 : HexSeq[i] = LowerChar(c)) - 1

-----------------------------------------------------------------------------
(* Lexer (src/src/lexer/lexer.py).  pos is Python's 0-based index. *)

NewLexer == [pos |-> 0, line |-> 1, column |-> 1, tokens |-> <<>>]

Token(type, value, line, column) ==
    [type |-> type, value |-> value, line |-> line, column |-> column]

current_char(src, lx) ==
    IF lx.pos >= Len(src) THEN NoneChar ELSE src[lx.pos + 1]

peek_char(src, lx) ==
    IF lx.pos + 1 >= Len(src) THEN NoneChar ELSE src[lx.pos + 2]

advance(src, lx) ==
    IF lx.pos >= Len(src) THEN lx
    ELSE IF current_char(src, lx) = "\n"
         THEN [lx EXCEPT !.line = @ + 1, !.column = 1, !.pos = @ + 1]
         ELSE [lx EXCEPT !.column = @ + 1, !.pos = @ + 1]

RECURSIVE skip_whitespace(_, _)
skip_whitespace(src, lx) ==
    LET c == current_char(src, lx)
    IN  IF c # NoneChar /\ IsSpace(c) /\ c # "\n"
        THEN skip_whitespace(src, advance(src, lx))
        ELSE lx

RECURSIVE skip_comment(_, _)
skip_comment(src, lx) ==
    LET c == current_char(src, lx)
    IN  IF c # NoneChar /\ c # "\n"
        THEN skip_comment(src, advance(src, lx))
        ELSE lx

(* The loops of read_number: append the characters of `allowed` to num_str. *)
RECURSIVE read_digits(_, _, _, _)
read_digits(src, lx, allowed, num_str) ==
    LET c == current_char(src, lx)
    IN  IF c # NoneChar /\ c \in allowed
        THEN read_digits(src, advance(src, lx), allowed, Append(num_str, c))
        ELSE [lx |-> lx, num_str |-> num_str]

(* Python's int(num_str, base) on ASCII text: an optional '-' and at least *)
(* one digit, else ValueError.                                             *)
RECURSIVE DigitsValue(_, _, _)
DigitsValue(ds, base, acc) ==
    IF ds = <<>> THEN acc
    ELSE DigitsValue(Tail(ds), base, acc * base + DigitVal(ds[1]))

int(num_str, base) ==
    LET neg == num_str # <<>> /\ num_str[1] = "-"
        ds  == IF neg THEN Tail(num_str) ELSE num_str
    IN  IF ds = <<>>
        THEN [exc |-> "ValueError", n |-> 0]
        ELSE [exc |-> "",
              n |-> IF neg THEN 0 - DigitsValue(ds, base, 0)
                    ELSE DigitsValue(ds, base, 0)]

(* `peek_char() in "xX"` raises TypeError when peek_char() is None. *)
read_number(src, lx0) ==
    LET neg == current_char(src, lx0) = "-"
        lx1 == IF neg THEN advance(src, lx0) ELSE lx0
        s1  == IF neg THEN <<"-">> ELSE <<>>
        zero == current_char(src, lx1) = "0"
        pk  == peek_char(src, lx1)
        lx2 == advance(src, advance(src, lx1))
    IN  IF zero /\ pk = NoneChar
        THEN [lx |-> lx1, exc |-> "TypeError", n |-> 0]
        ELSE IF zero /\ pk \in {"x", "X"}
        THEN LET r == read_digits(src, lx2, HexDigits, s1)
                 v == int(r.num_str, 16)
             IN  IF r.num_str = <<>>
                 THEN [lx |-> r.lx, exc |-> "", n |-> 0]
                 ELSE [lx |-> r.lx, exc |-> v.exc, n |-> v.n]
        ELSE IF zero /\ pk \in {"b", "B"}
        THEN LET r == read_digits(src, lx2, BinDigits, s1)
                 v == int(r.num_str, 2)
             IN  IF r.num_str = <<>>
                 THEN [lx |-> r.lx, exc |-> "", n |-> 0]
                 ELSE [lx |-> r.lx, exc |-> v.exc, n |-> v.n]
        ELSE LET r == read_digits(src, lx1, Digits, s1)
                 v == int(r.num_str, 10)
             IN  [lx |-> r.lx, exc |-> v.exc, n |-> v.n]

(* The body is `...`: it reads and changes nothing. *)
_tokenize_operators(src, lx) == lx

RECURSIVE read_identifier(_, _, _)
read_identifier(src, lx, result) ==
    LET c == current_char(src, lx)
    IN  IF c # NoneChar /\ (IsAlnum(c) \/ c = "_")
        THEN read_identifier(src, advance(src, lx), Append(result, c))
        ELSE [lx |-> lx, ident |-> result]

(* src/src/lexer/keyword.py: the entries that are not commented out; each *)
(* key maps to the TokenType member of the same name.                      *)
KEYWORD_DICT ==
    [ kw \in { "VAR", "LOAD", "SET", "MOVE",
               "ADD", "SUB", "MUL", "DIV", "AND", "OR", "XOR",
               "INC", "DEC", "NOT",
               "SHL", "SHR",
               "FUNC", "ENDFUNC", "CALL", "RET",
               "IF", "ELSE", "ENDIF",
               "PRINT", "INPUT", "HALT", "NOP" } |-> kw ]

LexerRegisters == {"R1", "R2", "R3", "R4", "R5", "R6", "R7", "R8"}

(* A variant that tests for a register before it looks at the ':', so    *)
(* that `R1:` would be a REGISTER.                                         *)
classify_register_first(ident, next) ==
    IF Text(ident) \in LexerRegisters THEN "REGISTER"
    ELSE IF next = ":" THEN "LABEL"
    ELSE IF Text(UpperOf(ident)) \in DOMAIN KEYWORD_DICT
         THEN KEYWORD_DICT[Text(UpperOf(ident))]
    ELSE "IDENTIFIER"

(* The classification of an identifier that has just been read; `next` is *)
(* the character after it.                                                 *)
classify_identifier(ident, next) ==
    IF next = ":" THEN "LABEL"
    ELSE IF Text(ident) \in LexerRegisters THEN "REGISTER"
    ELSE IF Text(UpperOf(ident)) \in DOMAIN KEYWORD_DICT
         THEN KEYWORD_DICT[Text(UpperOf(ident))]
    ELSE "IDENTIFIER"

(* One iteration of the while loop of tokenize; `stop` is its break. *)
tokenize_step(src, lx0) ==
    LET lx == skip_whitespace(src, lx0)
        c  == current_char(src, lx)
        pk == peek_char(src, lx)
    IN  IF c = NoneChar
        THEN [lx |-> lx, exc |-> "", stop |-> TRUE]
        ELSE IF c = ";"
        THEN [lx |-> skip_comment(src, lx), exc |-> "", stop |-> FALSE]
        ELSE IF c = ","
        THEN [lx |-> advance(src, [lx EXCEPT !.tokens =
                        Append(@, Token("COMMA", StrV(<<",">>), lx.line, lx.column))]),
              exc |-> "", stop |-> FALSE]
        ELSE IF c = "\n"
        THEN [lx |-> advance(src, [lx EXCEPT !.tokens =
                        Append(@, Token("NEWLINE", StrV(<<"\n">>), lx.line, lx.column))]),
              exc |-> "", stop |-> FALSE]
        ELSE IF IsDigit(c) \/ (c = "-" /\ pk # NoneChar /\ IsDigit(pk))
        THEN LET r == read_number(src, lx)
             IN  IF r.exc # ""
                 THEN [lx |-> r.lx, exc |-> r.exc, stop |-> TRUE]
                 ELSE [lx |-> [r.lx EXCEPT !.tokens =
                                Append(@, Token("NUMBER", IntV(r.n),
                                                r.lx.line, r.lx.column))],
                       exc |-> "", stop |-> FALSE]
        ELSE LET lxo == _tokenize_operators(src, lx)
                 co  == current_char(src, lxo)
             IN  IF IsAlpha(co) \/ co = "_"
                 THEN LET r    == read_identifier(src, lxo, <<>>)
                          type == classify_identifier(r.ident, current_char(src, r.lx))
                          lxt  == [r.lx EXCEPT !.tokens =
                                     Append(@, Token(type, StrV(r.ident),
                                                     r.lx.line, r.lx.column))]
                      IN  [lx |-> IF type = "LABEL" THEN advance(src, lxt) ELSE lxt,
                           exc |-> "", stop |-> FALSE]
                 ELSE [lx |-> advance(src, lxo), exc |-> "", stop |-> FALSE]

RECURSIVE tokenize_loop(_, _)
tokenize_loop(src, lx) ==
    LET Iteration(r) ==
            IF r.exc # "" THEN [lx |-> r.lx, exc |-> r.exc]
            ELSE IF r.stop THEN [lx |-> r.lx, exc |-> ""]
            ELSE tokenize_loop(src, r.lx)
    IN  IF lx.pos >= Len(src) THEN [lx |-> lx, exc |-> ""]
        ELSE Iteration(tokenize_step(src, lx))

(* Lexer.tokenize: the loop, then the EOF token; the list returned is the *)
(* object's own self.tokens.                                              *)
tokenize(src, lx) ==
    LET Eof(r) ==
            IF r.exc # "" THEN r
            ELSE [lx |-> [r.lx EXCEPT !.tokens =
                            Append(@, Token("EOF", None, r.lx.line, r.lx.column))],
                  exc |-> ""]
    IN  Eof(tokenize_loop(src, lx))

-----------------------------------------------------------------------------
(* Parser (src/src/parser/parser.py).  A parse function takes the token   *)
(* list and the cursor and returns the cursor after it with the node, or   *)
(* ok = FALSE with the line the SyntaxError cites.                         *)

POk(pos, node) == [ok |-> TRUE, pos |-> pos, node |-> node, line |-> 0]
PErr(pos, line) == [ok |-> FALSE, pos |-> pos, node |-> None, line |-> line]

current_token(tokens, pos) ==
    IF pos >= Len(tokens) THEN tokens[Len(tokens)] ELSE tokens[pos + 1]

expect(tokens, pos, expected) ==
    LET token == current_token(tokens, pos)
    IN  IF token.type # expected
        THEN [ok |-> FALSE, pos |-> pos, token |-> token, line |-> token.line]
        ELSE [ok |-> TRUE, pos |-> pos + 1, token |-> token, line |-> 0]

(* The if/elif chains on the current token's type that end in             *)
(* `raise SyntaxError(... at line {token.line})`.                          *)
expect_any(tokens, pos, types) ==
    LET token == current_token(tokens, pos)
    IN  IF token.type \notin types
        THEN [ok |-> FALSE, pos |-> pos, token |-> token, line |-> token.line]
        ELSE [ok |-> TRUE, pos |-> pos + 1, token |-> token, line |-> 0]

(* Consecutive calls, each expecting one of a set of types; vals are the   *)
(* values of the tokens consumed.                                          *)
RECURSIVE expect_seq(_, _, _, _)
expect_seq(tokens, pos, typesets, vals) ==
    IF typesets = <<>>
    THEN [ok |-> TRUE, pos |-> pos, vals |-> vals, line |-> 0]
    ELSE LET r == expect_any(tokens, pos, typesets[1])
         IN  IF ~r.ok THEN [ok |-> FALSE, pos |-> pos, vals |-> vals, line |-> r.line]
             ELSE expect_seq(tokens, r.pos, Tail(typesets), Append(vals, r.token.value))

RECURSIVE skip_newlines(_, _)
skip_newlines(tokens, pos) ==
    IF current_token(tokens, pos).type = "NEWLINE"
    THEN skip_newlines(tokens, pos + 1)
    ELSE pos

upper(v) == StrV(UpperOf(v.s))

parse_var_decl(tokens, pos) ==
    LET r == expect_seq(tokens, pos, <<{"VAR"}, {"IDENTIFIER"}>>, <<>>)
    IN  IF ~r.ok THEN PErr(r.pos, r.line)
        ELSE IF current_token(tokens, r.pos).type = "COMMA"
        THEN LET n == expect(tokens, r.pos + 1, "NUMBER")
             IN  IF ~n.ok THEN PErr(n.pos, n.line)
                 ELSE POk(n.pos, [node |-> "VarDecl", name |-> r.vals[2],
                                  value |-> n.token.value])
        ELSE POk(r.pos, [node |-> "VarDecl", name |-> r.vals[2], value |-> None])

parse_load(tokens, pos) ==
    LET r == expect_seq(tokens, pos, <<{"LOAD"}, {"REGISTER"}, {"COMMA"},
                                       {"REGISTER", "IDENTIFIER", "NUMBER"}>>, <<>>)
    IN  IF ~r.ok THEN PErr(r.pos, r.line)
        ELSE POk(r.pos, [node |-> "Load", dest |-> r.vals[2], src |-> r.vals[4]])

parse_set(tokens, pos) ==
    LET r == expect_seq(tokens, pos, <<{"SET"}, {"IDENTIFIER"}, {"COMMA"},
                                       {"REGISTER", "NUMBER"}>>, <<>>)
    IN  IF ~r.ok THEN PErr(r.pos, r.line)
        ELSE POk(r.pos, [node |-> "Set", dest |-> r.vals[2], src |-> r.vals[4]])

parse_move(tokens, pos) ==
    LET r == expect_seq(tokens, pos, <<{"MOVE"}, {"REGISTER"}, {"COMMA"},
                                       {"REGISTER"}>>, <<>>)
    IN  IF ~r.ok THEN PErr(r.pos, r.line)
        ELSE POk(r.pos, [node |-> "Move", dest |-> r.vals[2], src |-> r.vals[4]])

(* Entered on one of ADD..XOR: the operator token is taken by advance(). *)
parse_binary_op(tokens, pos) ==
    LET op == upper(current_token(tokens, pos).value)
        r  == expect_seq(tokens, pos + 1, <<{"REGISTER"}, {"COMMA"}, {"REGISTER"},
                                            {"COMMA"}, {"REGISTER", "NUMBER"}>>, <<>>)
    IN  IF ~r.ok THEN PErr(r.pos, r.line)
        ELSE POk(r.pos, [node |-> "BinaryOp", op |-> op, dest |-> r.vals[1],
                         left |-> r.vals[3], right |-> r.vals[5]])

parse_unary_op(tokens, pos) ==
    LET op == upper(current_token(tokens, pos).value)
        r  == expect_any(tokens, pos + 1, {"REGISTER", "IDENTIFIER"})
    IN  IF ~r.ok THEN PErr(r.pos, r.line)
        ELSE POk(r.pos, [node |-> "UnaryOp", op |-> op, operand |-> r.token.value])

(* NOT takes dest and src and builds a BinaryOp whose op is "NOT". *)
parse_not(tokens, pos) ==
    LET r == expect_seq(tokens, pos, <<{"NOT"}, {"REGISTER"}, {"COMMA"},
                                       {"REGISTER"}>>, <<>>)
    IN  IF ~r.ok THEN PErr(r.pos, r.line)
        ELSE POk(r.pos, [node |-> "BinaryOp", op |-> StrV(<<"N", "O", "T">>),
                         dest |-> r.vals[2], left |-> r.vals[4], right |-> IntV(0)])

parse_shift(tokens, pos) ==
    LET op == upper(current_token(tokens, pos).value)
        r  == expect_seq(tokens, pos + 1, <<{"REGISTER"}, {"COMMA"}, {"REGISTER"},
                                            {"COMMA"}, {"NUMBER"}>>, <<>>)
    IN  IF ~r.ok THEN PErr(r.pos, r.line)
        ELSE POk(r.pos, [node |-> "ShiftOp", op |-> op, dest |-> r.vals[1],
                         src |-> r.vals[3], count |-> r.vals[5]])

parse_compare(tokens, pos) ==
    LET r == expect_seq(tokens, pos, <<{"CMP"}, {"REGISTER", "IDENTIFIER"}, {"COMMA"},
                                       {"REGISTER", "NUMBER"}>>, <<>>)
    IN  IF ~r.ok THEN PErr(r.pos, r.line)
        ELSE POk(r.pos, [node |-> "Compare", left |-> r.vals[2], right |-> r.vals[4]])

parse_jump(tokens, pos) ==
    LET op == upper(current_token(tokens, pos).value)
        r  == expect(tokens, pos + 1, "IDENTIFIER")
    IN  IF ~r.ok THEN PErr(r.pos, r.line)
        ELSE POk(r.pos, [node |-> "Jump", op |-> op, label |-> r.token.value])

parse_label(tokens, pos) ==
    LET r == expect(tokens, pos, "LABEL")
    IN  IF ~r.ok THEN PErr(r.pos, r.line)
        ELSE POk(r.pos, [node |-> "Label", name |-> r.token.value])

parse_call(tokens, pos) ==
    LET r == expect_seq(tokens, pos, <<{"CALL"}, {"IDENTIFIER"}>>, <<>>)
    IN  IF ~r.ok THEN PErr(r.pos, r.line)
        ELSE POk(r.pos, [node |-> "Call", name |-> r.vals[2]])

parse_return(tokens, pos) ==
    LET r == expect(tokens, pos, "RET")
    IN  IF ~r.ok THEN PErr(r.pos, r.line)
        ELSE IF current_token(tokens, r.pos).type = "REGISTER"
        THEN POk(r.pos + 1, [node |-> "Return",
                             value |-> current_token(tokens, r.pos).value])
        ELSE POk(r.pos, [node |-> "Return", value |-> None])

ComparisonTypes == {"EQ", "NEQ", "GT", "LT", "GTE", "LTE"}

parse_condition(tokens, pos) ==
    LET r == expect_seq(tokens, pos, <<{"REGISTER", "IDENTIFIER", "NUMBER"},
                                       ComparisonTypes,
                                       {"REGISTER", "IDENTIFIER", "NUMBER"}>>, <<>>)
    IN  IF ~r.ok THEN PErr(r.pos, r.line)
        ELSE POk(r.pos, [node |-> "Condition", left |-> r.vals[1], op |-> r.vals[2],
                         right |-> r.vals[3]])

parse_push(tokens, pos) ==
    LET r == expect_seq(tokens, pos, <<{"PUSH"}, {"REGISTER"}>>, <<>>)
    IN  IF ~r.ok THEN PErr(r.pos, r.line)
        ELSE POk(r.pos, [node |-> "Push", register |-> r.vals[2]])

parse_pop(tokens, pos) ==
    LET r == expect_seq(tokens, pos, <<{"POP"}, {"REGISTER"}>>, <<>>)
    IN  IF ~r.ok THEN PErr(r.pos, r.line)
        ELSE POk(r.pos, [node |-> "Pop", register |-> r.vals[2]])

parse_print(tokens, pos) ==
    LET r == expect_seq(tokens, pos, <<{"PRINT"},
                                       {"REGISTER", "IDENTIFIER", "NUMBER"}>>, <<>>)
    IN  IF ~r.ok THEN PErr(r.pos, r.line)
        ELSE POk(r.pos, [node |-> "Print", value |-> r.vals[2]])

parse_input(tokens, pos) ==
    LET r == expect_seq(tokens, pos, <<{"INPUT"}, {"REGISTER", "IDENTIFIER"}>>, <<>>)
    IN  IF ~r.ok THEN PErr(r.pos, r.line)
        ELSE POk(r.pos, [node |-> "Input", dest |-> r.vals[2]])

RECURSIVE parse_statement(_, _)

(* The loop shared by parse and every block:                               *)
(*   while current_token().type not in terminators:                       *)
(*       stmt = parse_statement(); if stmt: body.append(stmt)              *)
(*       skip_newlines()                                                   *)
RECURSIVE parse_body(_, _, _, _)
parse_body(tokens, pos, terminators, body) ==
    LET Iteration(r) ==
            IF ~r.ok THEN [ok |-> FALSE, pos |-> r.pos, body |-> body, line |-> r.line]
            ELSE parse_body(tokens, skip_newlines(tokens, r.pos), terminators,
                            IF r.node # None THEN Append(body, r.node) ELSE body)
    IN  IF current_token(tokens, pos).type \in terminators
        THEN [ok |-> TRUE, pos |-> pos, body |-> body, line |-> 0]
        ELSE Iteration(parse_statement(tokens, pos))

(* skip_newlines(), the body loop, then expect(closing keyword). *)
parse_block(tokens, pos, closing) ==
    LET Close(b, e) ==
            IF ~e.ok THEN [ok |-> FALSE, pos |-> e.pos, body |-> b.body, line |-> e.line]
            ELSE [ok |-> TRUE, pos |-> e.pos, body |-> b.body, line |-> 0]
        Body(b) == IF ~b.ok THEN b ELSE Close(b, expect(tokens, b.pos, closing))
    IN  Body(parse_body(tokens, skip_newlines(tokens, pos), {closing}, <<>>))

parse_function(tokens, pos) ==
    LET Block(r, b) ==
            IF ~b.ok THEN PErr(b.pos, b.line)
            ELSE POk(b.pos, [node |-> "Function", name |-> r.vals[2], body |-> b.body])
        Header(r) ==
            IF ~r.ok THEN PErr(r.pos, r.line)
            ELSE Block(r, parse_block(tokens, r.pos, "ENDFUNC"))
    IN  Header(expect_seq(tokens, pos, <<{"FUNC"}, {"IDENTIFIER"}>>, <<>>))

parse_loop(tokens, pos) ==
    LET Block(r, b) ==
            IF ~b.ok THEN PErr(b.pos, b.line)
            ELSE POk(b.pos, [node |-> "Loop", var |-> r.vals[2], limit |-> r.vals[4],
                             body |-> b.body])
        Header(r) ==
            IF ~r.ok THEN PErr(r.pos, r.line)
            ELSE Block(r, parse_block(tokens, r.pos, "ENDLOOP"))
    IN  Header(expect_seq(tokens, pos, <<{"LOOP"}, {"IDENTIFIER"}, {"COMMA"},
                                         {"NUMBER"}>>, <<>>))

parse_while(tokens, pos) ==
    LET Block(c, b) ==
            IF ~b.ok THEN PErr(b.pos, b.line)
            ELSE POk(b.pos, [node |-> "While", condition |-> c.node, body |-> b.body])
        Cond(c) ==
            IF ~c.ok THEN c ELSE Block(c, parse_block(tokens, c.pos, "ENDWHILE"))
        Header(w) ==
            IF ~w.ok THEN PErr(w.pos, w.line) ELSE Cond(parse_condition(tokens, w.pos))
    IN  Header(expect(tokens, pos, "WHILE"))

parse_for(tokens, pos) ==
    LET Block(r, step, b) ==
            IF ~b.ok THEN PErr(b.pos, b.line)
            ELSE POk(b.pos, [node |-> "For", var |-> r.vals[2], start |-> r.vals[4],
                             end |-> r.vals[6], step |-> step, body |-> b.body])
        Step(r, st) ==
            IF ~st.ok THEN PErr(st.pos, st.line)
            ELSE Block(r, st.token.value, parse_block(tokens, st.pos, "ENDFOR"))
        Header(r) ==
            IF ~r.ok THEN PErr(r.pos, r.line)
            ELSE IF current_token(tokens, r.pos).type = "STEP"
            THEN Step(r, expect(tokens, r.pos + 1, "NUMBER"))
            ELSE Block(r, IntV(1), parse_block(tokens, r.pos, "ENDFOR"))
    IN  Header(expect_seq(tokens, pos, <<{"FOR"}, {"IDENTIFIER"}, {"FROM"}, {"NUMBER"},
                                         {"TO"}, {"NUMBER"}>>, <<>>))

parse_repeat(tokens, pos) ==
    LET Cond(b, c) ==
            IF ~c.ok THEN c
            ELSE POk(c.pos, [node |-> "Repeat", body |-> b.body, condition |-> c.node])
        Block(b) ==
            IF ~b.ok THEN PErr(b.pos, b.line)
            ELSE Cond(b, parse_condition(tokens, b.pos))
        Header(r) ==
            IF ~r.ok THEN PErr(r.pos, r.line)
            ELSE Block(parse_block(tokens, r.pos, "UNTIL"))
    IN  Header(expect(tokens, pos, "REPEAT"))

parse_if(tokens, pos) ==
    LET Close(c, then_body, else_body, x) ==
            IF ~x.ok THEN PErr(x.pos, x.line)
            ELSE POk(x.pos, [node |-> "If", condition |-> c.node,
                             then_body |-> then_body, else_body |-> else_body])
        Else(c, t, e) ==
            IF ~e.ok THEN PErr(e.pos, e.line)
            ELSE Close(c, t.body, [k |-> "list", items |-> e.body],
                       expect(tokens, e.pos, "ENDIF"))
        Then(c, t) ==
            IF ~t.ok THEN PErr(t.pos, t.line)
            ELSE IF current_token(tokens, t.pos).type = "ELSE"
            THEN Else(c, t, parse_body(tokens, skip_newlines(tokens, t.pos + 1),
                                       {"ENDIF"}, <<>>))
            ELSE Close(c, t.body, None, expect(tokens, t.pos, "ENDIF"))
        Cond(c) ==
            IF ~c.ok THEN c
            ELSE Then(c, parse_body(tokens, skip_newlines(tokens, c.pos),
                                    {"ELSE", "ENDIF"}, <<>>))
        Header(i) ==
            IF ~i.ok THEN PErr(i.pos, i.line) ELSE Cond(parse_condition(tokens, i.pos))
    IN  Header(expect(tokens, pos, "IF"))

parse_statement(tokens, pos0) ==
    LET pos   == skip_newlines(tokens, pos0)
        token == current_token(tokens, pos)
        type  == token.type
    IN  CASE type = "VAR" -> parse_var_decl(tokens, pos)
          [] type = "LOAD" -> parse_load(tokens, pos)
          [] type = "SET" -> parse_set(tokens, pos)
          [] type = "MOVE" -> parse_move(tokens, pos)
          [] type \in {"ADD", "SUB", "MUL", "DIV", "AND", "OR", "XOR"} ->
                parse_binary_op(tokens, pos)
          [] type \in {"INC", "DEC"} -> parse_unary_op(tokens, pos)
          [] type = "NOT" -> parse_not(tokens, pos)
          [] type \in {"SHL", "SHR"} -> parse_shift(tokens, pos)
          [] type = "CMP" -> parse_compare(tokens, pos)
          [] type \in {"JMP", "JE", "JNE", "JG", "JL", "JGE", "JLE"} ->
                parse_jump(tokens, pos)
          [] type = "LABEL" -> parse_label(tokens, pos)
          [] type = "FUNC" -> parse_function(tokens, pos)
          [] type = "CALL" -> parse_call(tokens, pos)
          [] type = "RET" -> parse_return(tokens, pos)
          [] type = "LOOP" -> parse_loop(tokens, pos)
          [] type = "WHILE" -> parse_while(tokens, pos)
          [] type = "FOR" -> parse_for(tokens, pos)
          [] type = "REPEAT" -> parse_repeat(tokens, pos)
          [] type = "IF" -> parse_if(tokens, pos)
          [] type = "PUSH" -> parse_push(tokens, pos)
          [] type = "POP" -> parse_pop(tokens, pos)
          [] type = "PRINT" -> parse_print(tokens, pos)
          [] type = "INPUT" -> parse_input(tokens, pos)
          [] type = "HALT" -> POk(pos + 1, [node |-> "Halt"])
          [] type = "NOP" -> POk(pos + 1, [node |-> "Nop"])
          [] type = "NEWLINE" -> POk(pos + 1, None)
          [] OTHER -> PErr(pos, token.line)

(* Parser.parse: the top-level loop runs until the EOF token. *)
parse(tokens, pos) ==
    LET Program(b) ==
            IF ~b.ok THEN PErr(b.pos, b.line)
            ELSE POk(b.pos, [node |-> "Program", statements |-> b.body])
    IN  Program(parse_body(tokens, pos, {"EOF"}, <<>>))

-----------------------------------------------------------------------------
(* NasmGenerator (src/src/generator/nasm_generator.py).  The three         *)
(* sections are sequences of lines; generate returns them joined by "\n". *)

SYS_READ == 0
SYS_WRITE == 1
SYS_EXIT == 60
STDIN == 0
STDOUT == 1
DIGIT_BUFFER_SIZE == 20
INPUT_BUFFER_SIZE == 32

REGISTER_MAP ==
    [ r \in {"R1", "R2", "R3", "R4", "R5", "R6", "R7", "R8"} |->
        CASE r = "R1" -> "rax" [] r = "R2" -> "rbx" [] r = "R3" -> "rcx"
          [] r = "R4" -> "rdx" [] r = "R5" -> "rsi" [] r = "R6" -> "rdi"
          [] r = "R7" -> "r8"  [] r = "R8" -> "r9" ]

NewGenerator ==
    [ data_section |-> <<>>, bss_section |-> <<>>, text_section |-> <<>>,
      label_counter |-> 0, variables |-> {},
      needs_print_int |-> FALSE, needs_read_int |-> FALSE, functions |-> <<>> ]

(* str(v) as an f-string writes it; bool(v) as `if v:` tests it. *)
Fmt(v) == IF IsInt(v) THEN ToString(v.n) ELSE IF IsStr(v) THEN Text(v.s) ELSE "None"
Truthy(v) == IF IsInt(v) THEN v.n # 0 ELSE IF IsStr(v) THEN v.s # <<>> ELSE FALSE

is_register(operand) == IsStr(operand) /\ Text(operand.s) \in DOMAIN REGISTER_MAP
get_register(reg) == IF is_register(reg) THEN REGISTER_MAP[Text(reg.s)] ELSE Fmt(reg)

emit_data(g, line) == [g EXCEPT !.data_section = Append(@, "    " \o line)]
emit_bss(g, line) == [g EXCEPT !.bss_section = Append(@, "    " \o line)]
emit(g, instruction) == [g EXCEPT !.text_section = Append(@, "    " \o instruction)]
emit_label(g, label) == [g EXCEPT !.text_section = Append(@, label \o ":")]
append_text(g, lines) == [g EXCEPT !.text_section = @ \o lines]

RECURSIVE emit_all(_, _)
emit_all(g, instructions) ==
    IF instructions = <<>> THEN g
    ELSE emit_all(emit(g, instructions[1]), Tail(instructions))

_initialize_sections(g) ==
    emit(emit_label(
           [emit([g EXCEPT !.data_section = Append(@, "section .data"),
                           !.bss_section = Append(@, "section .bss"),
                           !.text_section = Append(@, "section .text")],
                 "global _start")
              EXCEPT !.text_section = Append(@, "")],
           "_start"),
         "jmp main_code")

print_int_lines ==
    << "",
       "print_int:",
       "    push rax",
       "    push rbx",
       "    push rcx",
       "    push rdx",
       "    push rsi",
       "    push rdi",
       "    push r11",
       "",
       "    mov r10, r15",
       "",
       "    mov r11, 10",
       "    lea r12, [digit_buffer + " \o ToString(DIGIT_BUFFER_SIZE - 1) \o "]",
       "    mov byte [r12], 0",
       "    dec r12",
       "    xor r13, r13  ; sign flag",
       "",
       "    test r10, r10",
       "    jns .positive",
       "    neg r10",
       "    mov r13, 1",
       "",
       ".positive:",
       "    mov rax, r10",
       "    xor rdx, rdx",
       "    div r11",
       "    mov r10, rax  ; quotient back to r10",
       "    add dl, '0'",
       "    mov [r12], dl",
       "    dec r12",
       "    test r10, r10",
       "    jnz .positive",
       "",
       "    test r13, r13",
       "    jz .print",
       "    mov byte [r12], '-'",
       "    dec r12",
       "",
       ".print:",
       "    inc r12  ; r12 = start of string",
       "    mov rdx, digit_buffer + " \o ToString(DIGIT_BUFFER_SIZE - 1),
       "    sub rdx, r12  ; rdx = length",
       "    mov rsi, r12  ; rsi = buffer pointer",
       "    mov rax, " \o ToString(SYS_WRITE),
       "    mov rdi, " \o ToString(STDOUT),
       "    syscall",
       "",
       "    mov rax, " \o ToString(SYS_WRITE),
       "    mov rdi, " \o ToString(STDOUT),
       "    lea rsi, [newline]",
       "    mov rdx, 1",
       "    syscall",
       "",
       "    pop r11",
       "    pop rdi",
       "    pop rsi",
       "    pop rdx",
       "    pop rcx",
       "    pop rbx",
       "    pop rax",
       "",
       "    ret" >>

read_int_lines ==
    << "",
       "read_int:",
       "    mov rax, " \o ToString(SYS_READ),
       "    mov rdi, " \o ToString(STDIN),
       "    lea rsi, [input_buffer]",
       "    mov rdx, " \o ToString(INPUT_BUFFER_SIZE),
       "    syscall",
       "",
       "    lea r12, [input_buffer]",
       "    xor r10, r10  ; result = 0",
       "    xor r13, r13  ; sign flag = 0",
       "    mov r11, 10",
       "",
       "    movzx r14, byte [r12]",
       "    cmp r14b, '-'",
       "    jne .parse_loop",
       "    mov r13, 1  ; set sign flag",
       "    inc r12",
       "",
       ".parse_loop:",
       "    movzx r14, byte [r12]",
       "    cmp r14b, '0'",
       "    jb .done",
       "    cmp r14b, '9'",
       "    ja .done",
       "    sub r14b, '0'",
       "    imul r10, r11  ; result *= 10",
       "    add r10, r14   ; result += digit",
       "    inc r12",
       "    jmp .parse_loop",
       "",
       ".done:",
       "    mov r15, r10",
       "    test r13, r13",
       "    jz .return",
       "    neg r15",
       "",
       ".return:",
       "    ret" >>

_add_print_int_function(g) == append_text(g, print_int_lines)
_add_read_int_function(g) == append_text(g, read_int_lines)

_add_helper_functions(g) ==
    LET g1 == IF g.needs_print_int THEN _add_print_int_function(g) ELSE g
    IN  IF g1.needs_read_int THEN _add_read_int_function(g1) ELSE g1

_add_io_buffers(g) ==
    LET g1 == IF g.needs_print_int
              THEN emit_data(emit_data(g, "newline db 10"),
                             "digit_buffer times " \o ToString(DIGIT_BUFFER_SIZE)
                                \o " db 0")
              ELSE g
    IN  IF g1.needs_read_int
        THEN emit_data(g1, "input_buffer times " \o ToString(INPUT_BUFFER_SIZE)
                              \o " db 0")
        ELSE g1

_add_exit_code(g) ==
    emit_all(g, << "mov rax, " \o ToString(SYS_EXIT), "mov rdi, 0", "syscall" >>)

_finalize_program(g) == _add_helper_functions(_add_exit_code(_add_io_buffers(g)))

_build_output(g) ==
    (IF Len(g.data_section) > 1 THEN Append(g.data_section, "") ELSE <<>>)
    \o (IF Len(g.bss_section) > 1 THEN Append(g.bss_section, "") ELSE <<>>)
    \o g.text_section

(* Statement lowering.  StrEq(v, t): the Python value v == the literal t. *)
StrEq(v, t) == IsStr(v) /\ Text(v.s) = t

generate_unary_op(g, stmt) ==
    LET operand == get_register(stmt.operand)
    IN  IF StrEq(stmt.op, "INC") THEN emit(g, "inc " \o operand)
        ELSE IF StrEq(stmt.op, "DEC") THEN emit(g, "dec " \o operand)
        ELSE IF StrEq(stmt.op, "NOT") THEN emit(g, "not " \o operand)
        ELSE g

generate_shift(g, stmt) ==
    LET dest == get_register(stmt.dest)
        src  == get_register(stmt.src)
        g1   == IF dest # src THEN emit(g, "mov " \o dest \o ", " \o src) ELSE g
    IN  IF StrEq(stmt.op, "SHL") THEN emit(g1, "shl " \o dest \o ", " \o Fmt(stmt.count))
        ELSE IF StrEq(stmt.op, "SHR")
        THEN emit(g1, "shr " \o dest \o ", " \o Fmt(stmt.count))
        ELSE g1

BinaryMnemonic(op) ==
    CASE StrEq(op, "ADD") -> "add" [] StrEq(op, "SUB") -> "sub"
      [] StrEq(op, "MUL") -> "imul" [] StrEq(op, "AND") -> "and"
      [] StrEq(op, "OR") -> "or" [] StrEq(op, "XOR") -> "xor"
      [] OTHER -> ""

(* generate_binary_op with the restores of DIV in the order of the saves. *)
generate_binary_op_restoring_in_order(g, stmt) ==
    LET dest == get_register(stmt.dest)
        left == get_register(stmt.left)
        right_operand ==
            IF IsInt(stmt.right) THEN Fmt(stmt.right)
            ELSE IF is_register(stmt.right) THEN get_register(stmt.right)
            ELSE "[" \o Fmt(stmt.right) \o "]"
        save_rax == dest # "rax"
    IN  IF StrEq(stmt.op, "DIV")
        THEN emit_all(g,
               (IF dest # "rdx" THEN <<"push rdx">> ELSE <<>>)
               \o (IF save_rax THEN <<"push rax">> ELSE <<>>)
               \o (IF left # "rax" THEN <<"mov rax, " \o left>> ELSE <<>>)
               \o <<"xor rdx, rdx">>
               \o (IF IsInt(stmt.right)
                   THEN <<"push r10", "mov r10, " \o Fmt(stmt.right), "div r10", "pop r10">>
                   ELSE <<"div " \o right_operand>>)
               \o (IF dest # "rax" THEN <<"mov " \o dest \o ", rax">> ELSE <<>>)
               \o (IF dest # "rdx" THEN <<"pop rdx">> ELSE <<>>)
               \o (IF save_rax THEN <<"pop rax">> ELSE <<>>))
        ELSE emit_all(g,
               (IF dest # left THEN <<"mov " \o dest \o ", " \o left>> ELSE <<>>)
               \o (IF BinaryMnemonic(stmt.op) # ""
                   THEN <<BinaryMnemonic(stmt.op) \o " " \o dest \o ", " \o right_operand>>
                   ELSE <<>>))

generate_binary_op(g, stmt) ==
    LET dest == get_register(stmt.dest)
        left == get_register(stmt.left)
        right_operand ==
            IF IsInt(stmt.right) THEN Fmt(stmt.right)
            ELSE IF is_register(stmt.right) THEN get_register(stmt.right)
            ELSE "[" \o Fmt(stmt.right) \o "]"
        save_rax == dest # "rax"
    IN  IF StrEq(stmt.op, "DIV")
        THEN emit_all(g,
               (IF dest # "rdx" THEN <<"push rdx">> ELSE <<>>)
               \o (IF save_rax THEN <<"push rax">> ELSE <<>>)
               \o (IF left # "rax" THEN <<"mov rax, " \o left>> ELSE <<>>)
               \o <<"xor rdx, rdx">>
               \o (IF IsInt(stmt.right)
                   THEN <<"push r10", "mov r10, " \o Fmt(stmt.right), "div r10", "pop r10">>
                   ELSE <<"div " \o right_operand>>)
               \o (IF dest # "rax" THEN <<"mov " \o dest \o ", rax">> ELSE <<>>)
               \o (IF save_rax THEN <<"pop rax">> ELSE <<>>)
               \o (IF dest # "rdx" THEN <<"pop rdx">> ELSE <<>>))
        ELSE emit_all(g,
               (IF dest # left THEN <<"mov " \o dest \o ", " \o left>> ELSE <<>>)
               \o (IF BinaryMnemonic(stmt.op) # ""
                   THEN <<BinaryMnemonic(stmt.op) \o " " \o dest \o ", " \o right_operand>>
                   ELSE <<>>))

generate_var_decl(g, stmt) ==
    LET g1 == [g EXCEPT !.variables = @ \cup {Fmt(stmt.name)}]
    IN  IF stmt.value # None
        THEN emit_data(g1, Fmt(stmt.name) \o " dq " \o Fmt(stmt.value))
        ELSE emit_bss(g1, Fmt(stmt.name) \o " resq 1")

generate_load(g, stmt) ==
    LET dest == get_register(stmt.dest)
    IN  IF IsInt(stmt.src) THEN emit(g, "mov " \o dest \o ", " \o Fmt(stmt.src))
        ELSE IF is_register(stmt.src)
        THEN emit(g, "mov " \o dest \o ", " \o get_register(stmt.src))
        ELSE emit(g, "mov " \o dest \o ", [" \o Fmt(stmt.src) \o "]")

generate_set(g, stmt) ==
    IF IsInt(stmt.src)
    THEN emit(g, "mov qword [" \o Fmt(stmt.dest) \o "], " \o Fmt(stmt.src))
    ELSE emit(g, "mov qword [" \o Fmt(stmt.dest) \o "], " \o get_register(stmt.src))

generate_move(g, stmt) ==
    LET dest == get_register(stmt.dest)
        temp_reg == "r10"
    IN  IF is_register(stmt.src)
        THEN emit(g, "mov " \o dest \o ", " \o get_register(stmt.src))
        ELSE emit(IF IsInt(stmt.src)
                  THEN emit(g, "mov " \o temp_reg \o ", " \o Fmt(stmt.src))
                  ELSE emit(g, "mov " \o temp_reg \o ", [" \o Fmt(stmt.src) \o "]"),
                  "mov " \o dest \o ", " \o temp_reg)

_load_value_to_r15(g, value) ==
    IF IsInt(value) THEN emit(g, "mov r15, " \o Fmt(value))
    ELSE IF is_register(value) THEN emit(g, "mov r15, " \o get_register(value))
    ELSE emit(g, "mov r15, [" \o Fmt(value) \o "]")

(* generate_print had it not recorded that the helper is needed. *)
generate_print_unrecorded(g, stmt) ==
    emit(_load_value_to_r15(g, stmt.value), "call print_int")

generate_print(g, stmt) ==
    emit(_load_value_to_r15([g EXCEPT !.needs_print_int = TRUE], stmt.value),
         "call print_int")

generate_input(g, stmt) ==
    LET g1 == emit([g EXCEPT !.needs_read_int = TRUE], "call read_int")
    IN  IF is_register(stmt.dest)
        THEN emit(g1, "mov " \o get_register(stmt.dest) \o ", r15")
        ELSE emit(g1, "mov [" \o Fmt(stmt.dest) \o "], r15")

generate_halt(g) ==
    emit_all(g, << "mov rax, " \o ToString(SYS_EXIT), "mov rdi, 0", "syscall" >>)

generate_call(g, stmt) == emit(g, "call " \o Fmt(stmt.name))

generate_return(g, stmt) ==
    emit(IF Truthy(stmt.value) /\ is_register(stmt.value)
         THEN emit(g, "mov rax, " \o get_register(stmt.value))
         ELSE g,
         "ret")

load_operand(g, reg, v) ==
    IF IsInt(v) THEN emit(g, "mov " \o reg \o ", " \o Fmt(v))
    ELSE IF is_register(v) THEN emit(g, "mov " \o reg \o ", " \o get_register(v))
    ELSE emit(g, "mov " \o reg \o ", [" \o Fmt(v) \o "]")

InverseJump(op) ==
    CASE StrEq(op, "==") -> "jne" [] StrEq(op, "!=") -> "je"
      [] StrEq(op, ">") -> "jle" [] StrEq(op, "<") -> "jge"
      [] StrEq(op, ">=") -> "jl" [] StrEq(op, "<=") -> "jg"
      [] OTHER -> ""

(* generate_condition leaving on equality where `>=` is to go on. *)
generate_condition_strict(g, cond, false_label) ==
    LET g1 == emit(load_operand(load_operand(g, "r10", cond.left), "r11", cond.right),
                   "cmp r10, r11")
        jump == IF StrEq(cond.op, ">=") THEN "jle" ELSE InverseJump(cond.op)
    IN  IF jump # "" THEN emit(g1, jump \o " " \o false_label) ELSE g1

generate_condition(g, cond, false_label) ==
    LET g1 == emit(load_operand(load_operand(g, "r10", cond.left), "r11", cond.right),
                   "cmp r10, r11")
    IN  IF InverseJump(cond.op) # ""
        THEN emit(g1, InverseJump(cond.op) \o " " \o false_label)
        ELSE g1

RECURSIVE generate_statement(_, _)

(* Python runs one statement after the other: Done(g) is TRUE of every     *)
(* generator, and asking it has g computed before the next call begins.    *)
Done(g) == DOMAIN g # {}

(* `for s in body: self.generate_statement(s)` *)
RECURSIVE generate_statements(_, _)
generate_statements(g, body) ==
    IF body = <<>> THEN g
    ELSE LET g1 == generate_statement(g, body[1])
         IN  IF Done(g1) THEN generate_statements(g1, Tail(body)) ELSE g1

(* generate_function had it given the label a prefix of its own. *)
generate_function_prefixed(g, stmt) ==
    generate_statements(emit_label(g, "func_" \o Fmt(stmt.name)), stmt.body)

generate_function(g, stmt) ==
    generate_statements(emit_label(g, Fmt(stmt.name)), stmt.body)

generate_if(g, stmt) ==
    LET n == ToString(g.label_counter)
        else_label == "else_" \o n
        endif_label == "endif_" \o n
        g1 == generate_condition([g EXCEPT !.label_counter = @ + 1],
                                 stmt.condition, else_label)
        Else(g2) ==
            IF Done(g2) /\ stmt.else_body # None /\ stmt.else_body.items # <<>>
            THEN emit_label(
                   generate_statements(
                     emit_label(emit(g2, "jmp " \o endif_label), else_label),
                     stmt.else_body.items),
                   endif_label)
            ELSE emit_label(g2, else_label)
    IN  Else(generate_statements(g1, stmt.then_body))

generate_loop(g, stmt) ==
    LET n == ToString(g.label_counter)
        start_label == "loop_start_" \o n
        end_label == "loop_end_" \o n
        var == Fmt(stmt.var)
        g1 == emit_all(
                emit_label(
                  emit([g EXCEPT !.label_counter = @ + 1],
                       "mov qword [" \o var \o "], 0"),
                  start_label),
                << "mov r10, [" \o var \o "]", "mov r11, " \o Fmt(stmt.limit),
                   "cmp r10, r11", "jge " \o end_label >>)
        g2 == generate_statements(g1, stmt.body)
    IN  emit_label(emit_all(g2, << "inc qword [" \o var \o "]",
                                  "jmp " \o start_label >>),
                   end_label)

(* generate_while had it left the counter as it found it. *)
generate_while_keeping_counter(g, stmt) ==
    LET n == ToString(g.label_counter)
        start_label == "while_start_" \o n
        end_label == "while_end_" \o n
        g1 == generate_condition(emit_label(g, start_label), stmt.condition, end_label)
        g2 == generate_statements(g1, stmt.body)
    IN  emit_label(emit(g2, "jmp " \o start_label), end_label)

generate_while(g, stmt) ==
    LET n == ToString(g.label_counter)
        start_label == "while_start_" \o n
        end_label == "while_end_" \o n
        g1 == generate_condition(
                emit_label([g EXCEPT !.label_counter = @ + 1], start_label),
                stmt.condition, end_label)
        g2 == generate_statements(g1, stmt.body)
    IN  emit_label(emit(g2, "jmp " \o start_label), end_label)

(* generate_for had it left the loop when var reaches end. *)
generate_for_exclusive(g, stmt) ==
    LET var == Fmt(stmt.var)
        g0 == IF var \notin g.variables
              THEN emit_bss([g EXCEPT !.variables = @ \cup {var}], var \o " resq 1")
              ELSE g
        n == ToString(g0.label_counter)
        start_label == "for_start_" \o n
        end_label == "for_end_" \o n
        g1 == emit_all(
                emit_label(
                  emit([g0 EXCEPT !.label_counter = @ + 1],
                       "mov qword [" \o var \o "], " \o Fmt(stmt.start)),
                  start_label),
                << "mov r10, [" \o var \o "]", "mov r11, " \o Fmt(stmt.end),
                   "cmp r10, r11", "jge " \o end_label >>)
        g2 == generate_statements(g1, stmt.body)
        g3 == IF stmt.step = IntV(1)
              THEN emit(g2, "inc qword [" \o var \o "]")
              ELSE emit(g2, "add qword [" \o var \o "], " \o Fmt(stmt.step))
    IN  emit_label(emit(g3, "jmp " \o start_label), end_label)

generate_for(g, stmt) ==
    LET var == Fmt(stmt.var)
        g0 == IF var \notin g.variables
              THEN emit_bss([g EXCEPT !.variables = @ \cup {var}], var \o " resq 1")
              ELSE g
        n == ToString(g0.label_counter)
        start_label == "for_start_" \o n
        end_label == "for_end_" \o n
        g1 == emit_all(
                emit_label(
                  emit([g0 EXCEPT !.label_counter = @ + 1],
                       "mov qword [" \o var \o "], " \o Fmt(stmt.start)),
                  start_label),
                << "mov r10, [" \o var \o "]", "mov r11, " \o Fmt(stmt.end),
                   "cmp r10, r11", "jg " \o end_label >>)
        g2 == generate_statements(g1, stmt.body)
        g3 == IF stmt.step = IntV(1)
              THEN emit(g2, "inc qword [" \o var \o "]")
              ELSE emit(g2, "add qword [" \o var \o "], " \o Fmt(stmt.step))
    IN  emit_label(emit(g3, "jmp " \o start_label), end_label)

generate_repeat(g, stmt) ==
    LET start_label == "repeat_start_" \o ToString(g.label_counter)
        g1 == emit_label([g EXCEPT !.label_counter = @ + 1], start_label)
        g2 == generate_statements(g1, stmt.body)
    IN  generate_condition(g2, stmt.condition, start_label)

(* A Function is queued; a node with no isinstance branch emits nothing. *)
generate_statement(g, stmt) ==
    LET node == stmt.node
    IN  CASE ~Done(g) -> g
          [] node = "Function" -> [g EXCEPT !.functions = Append(@, stmt)]
          [] node = "VarDecl" -> generate_var_decl(g, stmt)
          [] node = "Load" -> generate_load(g, stmt)
          [] node = "Set" -> generate_set(g, stmt)
          [] node = "Move" -> generate_move(g, stmt)
          [] node = "Print" -> generate_print(g, stmt)
          [] node = "Input" -> generate_input(g, stmt)
          [] node = "BinaryOp" -> generate_binary_op(g, stmt)
          [] node = "UnaryOp" -> generate_unary_op(g, stmt)
          [] node = "ShiftOp" -> generate_shift(g, stmt)
          [] node = "Halt" -> generate_halt(g)
          [] node = "Nop" -> [g EXCEPT !.text_section = Append(@, "    nop")]
          [] node = "Call" -> generate_call(g, stmt)
          [] node = "Return" -> generate_return(g, stmt)
          [] node = "If" -> generate_if(g, stmt)
          [] node = "Loop" -> generate_loop(g, stmt)
          [] node = "While" -> generate_while(g, stmt)
          [] node = "For" -> generate_for(g, stmt)
          [] node = "Repeat" -> generate_repeat(g, stmt)
          [] OTHER -> g

(* `for func in self.functions: self.generate_function(func)`: the list   *)
(* grows while it is iterated, and the iteration reaches what is appended. *)
(* The loop had it iterated a copy of the list taken when it starts. *)
RECURSIVE generate_functions_upto(_, _, _)
generate_functions_upto(g, i, n) ==
    IF i > n THEN g
    ELSE generate_functions_upto(generate_function(g, g.functions[i]), i + 1, n)
generate_functions_of_copy(g, i) == generate_functions_upto(g, i, Len(g.functions))

RECURSIVE generate_functions(_, _)
generate_functions(g, i) ==
    IF i > Len(g.functions) THEN g
    ELSE LET g1 == generate_function(g, g.functions[i])
         IN  IF Done(g1) THEN generate_functions(g1, i + 1) ELSE g1

_generate_program_body(g, program) ==
    generate_functions(
        generate_statements(emit_label(g, "main_code"), program.statements), 1)

generate(g, program) ==
    LET Built(g2) == [g |-> g2, out |-> _build_output(g2)]
        Finalized(g1) == IF Done(g1) THEN Built(_finalize_program(g1)) ELSE Built(g1)
    IN  Finalized(_generate_program_body(_initialize_sections(g), program))

-----------------------------------------------------------------------------
(* The sources the pipeline is run on. *)

(* The keywords of the language (spec 4.1), upper case. *)
LanguageKeywords ==
    {
      <<"V", "A", "R">>, <<"L", "O", "A", "D">>, <<"S", "E", "T">>,
      <<"M", "O", "V", "E">>, <<"A", "D", "D">>, <<"S", "U", "B">>,
      <<"M", "U", "L">>, <<"D", "I", "V">>, <<"A", "N", "D">>, <<"O", "R">>,
      <<"X", "O", "R">>, <<"I", "N", "C">>, <<"D", "E", "C">>,
      <<"N", "O", "T">>, <<"S", "H", "L">>, <<"S", "H", "R">>,
      <<"F", "U", "N", "C">>, <<"E", "N", "D", "F", "U", "N", "C">>,
      <<"C", "A", "L", "L">>, <<"R", "E", "T">>, <<"L", "O", "O", "P">>,
      <<"E", "N", "D", "L", "O", "O", "P">>, <<"W", "H", "I", "L", "E">>,
      <<"E", "N", "D", "W", "H", "I", "L", "E">>, <<"F", "O", "R">>,
      <<"E", "N", "D", "F", "O", "R">>, <<"F", "R", "O", "M">>, <<"T", "O">>,
      <<"S", "T", "E", "P">>, <<"R", "E", "P", "E", "A", "T">>,
      <<"U", "N", "T", "I", "L">>, <<"I", "F">>, <<"E", "L", "S", "E">>,
      <<"E", "N", "D", "I", "F">>, <<"P", "U", "S", "H">>, <<"P", "O", "P">>,
      <<"P", "R", "I", "N", "T">>, <<"I", "N", "P", "U", "T">>,
      <<"H", "A", "L", "T">>, <<"N", "O", "P">> }

(* Identifiers, registers, literals and punctuation the statements use. *)
OtherWords ==
    { <<"x">>, <<"f">>, <<"g">>, <<"_", "s", "t", "a", "r", "t">>,
      <<"R", "1">>, <<"R", "2">>, <<"R", "3">>,
      <<"0">>, <<"3">>, <<"1", "0">>, <<"2", "6">>,
      <<",">>, <<"\n">>,
      <<"=", "=">>, <<"!", "=">>, <<"<", "=">>, <<">", "=">>, <<"<">>, <<">">> }

Word(text) == CHOOSE w \in LanguageKeywords \cup OtherWords : Text(w) = text
NL == <<"\n">>
COMMA == <<",">>

(* A statement is written as its lexemes; the source text puts one space  *)
(* between two lexemes.                                                    *)
RECURSIVE Render(_)
Render(lexemes) ==
    IF lexemes = <<>> THEN <<>>
    ELSE IF Len(lexemes) = 1 THEN lexemes[1]
    ELSE lexemes[1] \o <<" ">> \o Render(Tail(lexemes))

SeqsUpTo(A, n) == UNION {[1..k -> A] : k \in 0..n}

(* How a source is written: free text, a program of simple statements in  *)
(* a layout, or one production with its lexeme number `drop` left out      *)
(* (0: none).                                                              *)
In(family, text, prog, layout, drop) ==
    [family |-> family, text |-> text, prog |-> prog, layout |-> layout, drop |-> drop]

(* Numeric literals and what surrounds them. *)
MaxNumberLen == 4
NumberAlphabet == {"-", "0", "1", "9", "x", "b", "A", " "}
NumberInputs == {In("number", t, <<>>, "", 0) : t \in SeqsUpTo(NumberAlphabet, MaxNumberLen)}

(* Sources without a statement: spaces, tabs, newlines and `;` comments in *)
(* any arrangement (a letter only inside a comment).                       *)
MaxBlankLen == 4
BlankAlphabet == {" ", "\t", "\n", ";", "c"}
InComment(t, i) ==
    \E j \in 1..(i - 1) : t[j] = ";" /\ \A k \in j..i : t[k] # "\n"
BlankInputs ==
    {In("blank", t, <<>>, "", 0) :
        t \in {u \in SeqsUpTo(BlankAlphabet, MaxBlankLen) :
                  \A i \in DOMAIN u : u[i] = "c" => InComment(u, i)}}

(* Identifiers, registers, labels. *)
MaxIdentLen == 3
IdentAlphabet == {"R", "r", "0", "1", "8", "9", "_", "I", "F", "f", ":", " "}
IdentInputs == {In("ident", t, <<>>, "", 0) : t \in SeqsUpTo(IdentAlphabet, MaxIdentLen)}

(* Every upper/lower-case spelling of every keyword, alone or followed by *)
(* something that is not ':'.                                             *)
Spellings(w) ==
    { [i \in 1..Len(w) |-> IF i \in S THEN LowerChar(w[i]) ELSE w[i]] :
        S \in SUBSET (1..Len(w)) }
KeywordFollowers == {"end", "operand", "newline"}
Follower(name) ==
    CASE name = "end" -> <<>>
      [] name = "operand" -> <<" ">> \o Word("R1")
      [] name = "newline" -> NL
KeywordInputs ==
    { In("keyword", sp, <<>>, fl, 0) :
        sp \in UNION {Spellings(w) : w \in LanguageKeywords}, fl \in KeywordFollowers }

(* operand, comparison operator, operand; with and without spaces. *)
ComparisonOperators ==
    {Word("=="), Word("!="), Word("<="), Word(">="), Word("<"), Word(">")}
ConditionOperands == {Word("R1"), Word("10"), Word("x")}
OperatorInputs ==
    { In("operator", <<>>, << <<l, op, r>> >>, lay, 0) :
        l \in ConditionOperands, op \in ComparisonOperators,
        r \in ConditionOperands, lay \in {"spaced", "tight"} }

(* The statements that are not blocks (spec 4.3), one example or more of  *)
(* each production.                                                        *)
SimpleStatements ==
    { <<Word("VAR"), Word("x")>>,
      <<Word("VAR"), Word("x"), COMMA, Word("10")>>,
      <<Word("LOAD"), Word("R1"), COMMA, Word("26")>>,
      <<Word("LOAD"), Word("R1"), COMMA, Word("x")>>,
      <<Word("SET"), Word("x"), COMMA, Word("10")>>,
      <<Word("SET"), Word("x"), COMMA, Word("0")>>,
      <<Word("MOVE"), Word("R1"), COMMA, Word("R2")>>,
      <<Word("ADD"), Word("R1"), COMMA, Word("R2"), COMMA, Word("R3")>>,
      <<Word("DIV"), Word("R1"), COMMA, Word("R2"), COMMA, Word("3")>>,
      <<Word("INC"), Word("R1")>>,
      <<Word("DEC"), Word("x")>>,
      <<Word("NOT"), Word("R1")>>,
      <<Word("SHL"), Word("R1"), COMMA, Word("R2"), COMMA, Word("3")>>,
      <<Word("CALL"), Word("f")>>,
      <<Word("RET")>>,
      <<Word("RET"), Word("R1")>>,
      <<Word("PUSH"), Word("R1")>>,
      <<Word("POP"), Word("R1")>>,
      <<Word("PRINT"), Word("x")>>,
      <<Word("PRINT"), Word("R1")>>,
      <<Word("INPUT"), Word("x")>>,
      <<Word("HALT")>>,
      <<Word("NOP")>> }

MaxStatements == 2
Layouts == {"plain", "newline", "comments"}
ProgramInputs ==
    { In("program", <<>>, prog, lay, 0) :
        prog \in SeqsUpTo(SimpleStatements, MaxStatements) \ {<<>>}, lay \in Layouts }

(* One well-formed example of every production of the statement grammar   *)
(* (spec 4.3) with the lexemes the grammar requires: not the optional     *)
(* parts, not the statements of a body, and not the only lexeme of a      *)
(* one-word statement, whose removal leaves no statement.                  *)
Production(lex, required) == [lex |-> lex, required |-> required]
Condition == <<Word("R1"), Word("=="), Word("10")>>
Productions ==
    { Production(<<Word("VAR"), Word("x")>>, {1, 2}),
      Production(<<Word("VAR"), Word("x"), COMMA, Word("10")>>, {1, 2}),
      Production(<<Word("LOAD"), Word("R1"), COMMA, Word("26")>>, 1..4),
      Production(<<Word("SET"), Word("x"), COMMA, Word("10")>>, 1..4),
      Production(<<Word("MOVE"), Word("R1"), COMMA, Word("R2")>>, 1..4),
      Production(<<Word("ADD"), Word("R1"), COMMA, Word("R2"), COMMA, Word("R3")>>, 1..6),
      Production(<<Word("INC"), Word("R1")>>, 1..2),
      Production(<<Word("NOT"), Word("R1")>>, 1..2),
      Production(<<Word("NOT"), Word("R1"), COMMA, Word("R2")>>, {}),
      Production(<<Word("SHR"), Word("R1"), COMMA, Word("R2"), COMMA, Word("3")>>, 1..6),
      Production(<<Word("FUNC"), Word("f"), NL, Word("HALT"), NL, Word("ENDFUNC")>>,
                 {1, 2, 3, 6}),
      Production(<<Word("FUNC"), Word("_start"), NL, Word("RET"), NL, Word("ENDFUNC")>>,
                 {}),
      Production(<<Word("FUNC"), Word("f"), NL, Word("FUNC"), Word("g"), NL,
                   Word("PRINT"), Word("R1"), NL, Word("ENDFUNC"), NL,
                   Word("INPUT"), Word("x"), NL, Word("ENDFUNC")>>, {}),
      Production(<<Word("CALL"), Word("f")>>, 1..2),
      Production(<<Word("RET"), Word("R1")>>, {1}),
      Production(<<Word("IF")>> \o Condition \o <<NL, Word("HALT"), NL, Word("ENDIF")>>,
                 {1, 2, 3, 4, 5, 8}),
      Production(<<Word("IF")>> \o Condition \o <<NL, Word("HALT"), NL, Word("ELSE"),
                   NL, Word("NOP"), NL, Word("ENDIF")>>, {1, 2, 3, 4, 5, 12}),
      Production(<<Word("LOOP"), Word("x"), COMMA, Word("3"), NL, Word("NOP"), NL,
                   Word("ENDLOOP")>>, {1, 2, 3, 4, 5, 8}),
      Production(<<Word("WHILE")>> \o Condition \o <<NL, Word("NOP"), NL,
                   Word("ENDWHILE")>>, {1, 2, 3, 4, 5, 8}),
      Production(<<Word("FOR"), Word("x"), Word("FROM"), Word("0"), Word("TO"),
                   Word("3"), NL, Word("NOP"), NL, Word("ENDFOR")>>, (1..7) \cup {10}),
      Production(<<Word("REPEAT"), NL, Word("NOP"), NL, Word("UNTIL")>> \o Condition,
                 {1, 2, 5, 6, 7, 8}),
      Production(<<Word("PUSH"), Word("R1")>>, 1..2),
      Production(<<Word("POP"), Word("R1")>>, 1..2),
      Production(<<Word("PRINT"), Word("x")>>, 1..2),
      Production(<<Word("INPUT"), Word("R1")>>, 1..2),
      Production(<<Word("HALT")>>, {}),
      Production(<<Word("NOP")>>, {}) }

ProductionInputs ==
    { In("production", <<>>, <<p.lex>>, lay, d) :
        p \in Productions, d \in {0}, lay \in {"plain", "newline"} }
    \cup
    UNION { { In("production", <<>>, <<p.lex>>, "plain", d) : d \in p.required } :
            p \in Productions }

(* The source text of an input. *)
Without(lex, d) == [i \in 1..(Len(lex) - 1) |-> IF i < d THEN lex[i] ELSE lex[i + 1]]

RECURSIVE Lines(_, _)
Lines(prog, sep) ==
    IF prog = <<>> THEN <<>>
    ELSE IF Len(prog) = 1 THEN Render(prog[1])
    ELSE Render(prog[1]) \o sep \o Lines(Tail(prog), sep)

Comment == <<";", " ", "x">>

(* Token lists of a few lines, each a block opener, a closing keyword, a   *)
(* statement or nothing, in every order: blocks nested, closed, left open  *)
(* and closed without having been opened.                                  *)
MaxLines == 3
LineKinds ==
    { <<Word("IF")>> \o Condition, <<Word("ELSE")>>, <<Word("ENDIF")>>,
      <<Word("WHILE")>> \o Condition, <<Word("ENDWHILE")>>,
      <<Word("LOOP"), Word("x"), COMMA, Word("3")>>, <<Word("ENDLOOP")>>,
      <<Word("FOR"), Word("x"), Word("FROM"), Word("0"), Word("TO"), Word("3")>>,
      <<Word("ENDFOR")>>,
      <<Word("REPEAT")>>, <<Word("UNTIL")>> \o Condition, <<Word("UNTIL")>>,
      <<Word("FUNC"), Word("f")>>, <<Word("ENDFUNC")>>,
      <<Word("HALT")>>, <<Word("IF")>>, <<>> }
NestedBlocks ==
    { << <<Word("IF")>> \o Condition, <<Word("WHILE")>> \o Condition, <<Word("HALT")>>,
         <<Word("ENDWHILE")>>, <<Word("ELSE")>>, <<Word("REPEAT")>>,
         <<Word("UNTIL")>> \o Condition, <<Word("ENDIF")>>, <<Word("HALT")>> >>,
      << <<Word("FUNC"), Word("f")>>,
         <<Word("FOR"), Word("x"), Word("FROM"), Word("0"), Word("TO"), Word("3")>>,
         <<Word("LOOP"), Word("x"), COMMA, Word("3")>>, <<Word("HALT")>>,
         <<Word("ENDLOOP")>>, <<Word("ENDFOR")>>, <<Word("ENDFUNC")>> >>,
      << <<Word("FUNC"), Word("f")>>,
         <<Word("FOR"), Word("x"), Word("FROM"), Word("0"), Word("TO"), Word("3")>>,
         <<Word("LOOP"), Word("x"), COMMA, Word("3")>>, <<Word("HALT")>>,
         <<Word("ENDLOOP")>>, <<Word("ENDFOR")>> >> }
LineInputs ==
    { In("lines", <<>>, prog, lay, 0) :
        prog \in SeqsUpTo(LineKinds, MaxLines) \cup NestedBlocks,
        lay \in {"plain", "newline"} }

SourceOf(in) ==
    CASE in.family \in {"number", "ident", "blank"} -> in.text
      [] in.family = "keyword" -> in.text \o Follower(in.layout)
      [] in.family = "operator" ->
            IF in.layout = "spaced" THEN Render(in.prog[1])
            ELSE in.prog[1][1] \o in.prog[1][2] \o in.prog[1][3]
      [] in.family = "program" ->
            ( CASE in.layout = "plain" -> Lines(in.prog, NL)
                [] in.layout = "newline" -> Lines(in.prog, NL) \o NL
                [] in.layout = "comments" ->
                      NL \o Comment \o NL
                      \o Lines(in.prog, <<" ">> \o Comment \o NL \o NL) \o NL )
      [] in.family = "production" ->
            (IF in.drop = 0 THEN Render(in.prog[1])
             ELSE Render(Without(in.prog[1], in.drop)))
            \o (IF in.layout = "newline" THEN NL ELSE <<>>)

-----------------------------------------------------------------------------
(* The pipeline of compile_tc_to_nasm (src/src/compiler/compiler.py): a   *)
(* fresh Lexer, Parser and NasmGenerator for each source.                  *)

NewParser(tokens) == [tokens |-> tokens, pos |-> 0]

(* A constructor that keeps the helper flag of the object left behind. *)
NasmGenerator_keeping_flag(previous) ==
    [NewGenerator EXCEPT !.needs_print_int = previous.needs_print_int]

(* generator = NasmGenerator(): whatever object an earlier call left       *)
(* behind, the constructor returns a new one.                              *)
NasmGenerator(previous) == NewGenerator

(* The process around the calls: the value of the environment variable     *)
(* DEBUG ('' when unset), the number of lines printed, and the calls that  *)
(* have returned or raised.                                                *)
NewSession(DEBUG) == [DEBUG |-> DEBUG, stdout |-> 0, returned |-> <<>>]
debug == Text(LowerOf(session.DEBUG)) \in {"true", "1", "yes"}
print(lines) == [session EXCEPT !.stdout = @ + lines]

Init ==
    /\ \/ input \in NumberInputs
       \/ input \in IdentInputs
       \/ input \in KeywordInputs
       \/ input \in OperatorInputs
       \/ input \in ProgramInputs
       \/ input \in ProductionInputs
       \/ input \in BlankInputs
    /\ source = SourceOf(input)
    /\ stage = "source"
    /\ lexer = NewLexer
    /\ parser = NewParser(<<>>)
    /\ ast = None
    /\ generator = NewGenerator
    /\ exc = NoExc
    /\ asm = <<>>
    /\ cpu = PowerOff
    /\ session = NewSession(<<>>)

(* lexer = Lexer(source_code); tokens = lexer.tokenize(); the tokens are   *)
(* printed under DEBUG, between a heading and an empty line.               *)
Tokenize ==
    /\ stage = "source"
    /\ LET Returned(r) ==
               /\ lexer' = r.lx
               /\ stage' = IF r.exc = "" THEN "lexed" ELSE "lex_raised"
               /\ exc' = IF r.exc = "" THEN NoExc ELSE [kind |-> r.exc, line |-> 0]
               /\ session' = IF debug /\ r.exc = "" THEN print(Len(r.lx.tokens) + 2)
                              ELSE session
       IN  Returned(tokenize(source, lexer))
    /\ UNCHANGED <<input, source, parser, ast, generator, asm, cpu>>

(* parser = Parser(tokens); ast = parser.parse(); the statements are       *)
(* printed under DEBUG, inside six lines of frame.                         *)
Parse ==
    /\ stage = "lexed"
    /\ LET Returned(r) ==
               /\ parser' = [tokens |-> lexer.tokens, pos |-> r.pos]
               /\ stage' = IF r.ok THEN "parsed" ELSE "parse_raised"
               /\ ast' = r.node
               /\ exc' = IF r.ok THEN NoExc
                         ELSE [kind |-> "SyntaxError", line |-> r.line]
               /\ session' = IF debug /\ r.ok THEN print(Len(r.node.statements) + 6)
                              ELSE session
       IN  Returned(parse(lexer.tokens, 0))
    /\ UNCHANGED <<input, source, lexer, generator, asm, cpu>>

(* generator = NasmGenerator(); asm_code = generator.generate(ast) *)
Generate ==
    /\ stage = "parsed"
    /\ LET Returned(r) ==
               /\ generator' = r.g
               /\ asm' = r.out
       IN  Returned(generate(NasmGenerator(generator), ast))
    /\ stage' = "generated"
    /\ UNCHANGED <<input, source, lexer, parser, ast, exc, cpu, session>>

Next == Tokenize \/ Parse \/ Generate

Spec == Init /\ [][Next]_vars

-----------------------------------------------------------------------------
(* Properties of the lexer.                                                *)

Tokenized == stage # "source"
TokenTypes == [i \in DOMAIN lexer.tokens |-> lexer.tokens[i].type]
EofCount == Cardinality({i \in DOMAIN lexer.tokens : lexer.tokens[i].type = "EOF"})

(* C1: for every source, tokenize on a fresh Lexer returns normally, and   *)
(* the list it returns ends with an EOF token that is its only EOF; this   *)
(* includes sources that end inside or right after a numeric literal and   *)
(* the prefixes 0x, 0b, -0x with no digits after them.                     *)
C1_TokenizeNeverRaises ==
    Tokenized =>
        /\ stage # "lex_raised"
        /\ lexer.tokens # <<>>
        /\ lexer.tokens[Len(lexer.tokens)].type = "EOF"
        /\ EofCount = 1

(* The source `0`: read_number asks `peek_char() in "xX"` with no next     *)
(* character.                                                              *)
C1_RaisedOnFinalZero ==
    /\ source = <<"0">>
    /\ stage = "lex_raised"
    /\ exc.kind = "TypeError"

(* C2: every upper/lower-case spelling of each of the forty keywords, not  *)
(* followed by ':', lexes as one token of that keyword's kind whose value  *)
(* is the spelling as written; it is never an IDENTIFIER token.            *)
C2_KeywordsLexAsKeywords ==
    (input.family = "keyword" /\ Tokenized) =>
        /\ stage # "lex_raised"
        /\ lexer.tokens[1].type = Text(UpperOf(input.text))
        /\ lexer.tokens[1].value = StrV(input.text)

(* `WHILE` is not a key of KEYWORD_DICT. *)
C2_WhileIsIdentifier ==
    /\ input.family = "keyword"
    /\ Text(input.text) = "WHILE"
    /\ stage = "lexed"
    /\ lexer.tokens[1].type = "IDENTIFIER"

ComparisonKind(op) ==
    CASE Text(op) = "==" -> "EQ"
      [] Text(op) = "!=" -> "NEQ"
      [] Text(op) = "<=" -> "LTE"
      [] Text(op) = ">=" -> "GTE"
      [] Text(op) = "<" -> "LT"
      [] Text(op) = ">" -> "GT"

(* C3: the source text ==, !=, <=, >=, <, > lexes as one token of kind EQ, *)
(* NEQ, LTE, GTE, LT, GT, so that a condition reaches the parser as        *)
(* operand, comparison token, operand (and the final EOF).                 *)
C3_ComparisonOperatorsLexed ==
    (input.family = "operator" /\ Tokenized) =>
        /\ stage # "lex_raised"
        /\ Len(lexer.tokens) = 4
        /\ lexer.tokens[2].type = ComparisonKind(input.prog[1][2])

(* `R1 == 10` lexes as REGISTER, NUMBER, EOF. *)
C3_OperatorSkipped ==
    /\ input.family = "operator"
    /\ Text(source) = "R1 == 10"
    /\ stage = "lexed"
    /\ TokenTypes = <<"REGISTER", "NUMBER", "EOF">>

(* A numeric literal as the language writes it: an optional '-', then 0x   *)
(* or 0X and hexadecimal digits, 0b or 0B and binary digits, or decimal    *)
(* digits; and the integer it denotes.                                     *)
LiteralBody(s) == IF s # <<>> /\ s[1] = "-" THEN Tail(s) ELSE s
Marked(b, marks) == Len(b) > 2 /\ b[1] = "0" /\ b[2] \in marks
AllIn(ds, allowed) == ds # <<>> /\ \A i \in DOMAIN ds : ds[i] \in allowed
IsLiteral(s) ==
    \/ /\ Marked(LiteralBody(s), {"x", "X"})
       /\ AllIn(SubSeq(LiteralBody(s), 3, Len(LiteralBody(s))), HexDigits)
    \/ /\ Marked(LiteralBody(s), {"b", "B"})
       /\ AllIn(SubSeq(LiteralBody(s), 3, Len(LiteralBody(s))), BinDigits)
    \/ AllIn(LiteralBody(s), Digits)

RECURSIVE PlaceValue(_, _)
PlaceValue(ds, base) ==
    IF ds = <<>> THEN 0
    ELSE PlaceValue(SubSeq(ds, 1, Len(ds) - 1), base) * base + DigitVal(ds[Len(ds)])

Magnitude(b) ==
    IF Marked(b, {"x", "X"}) THEN PlaceValue(SubSeq(b, 3, Len(b)), 16)
    ELSE IF Marked(b, {"b", "B"}) THEN PlaceValue(SubSeq(b, 3, Len(b)), 2)
    ELSE PlaceValue(b, 10)

Denotes(s) == IF s[1] = "-" THEN 0 - Magnitude(LiteralBody(s)) ELSE Magnitude(s)

MinusBeforeDigit(s) == \E i \in 1..(Len(s) - 1) : s[i] = "-" /\ IsDigit(s[i + 1])

(* C4: the NUMBER token of a numeric literal carries the integer the       *)
(* literal denotes (base 16 after 0x/0X, base 2 after 0b/0B, else base 10, *)
(* negated by a '-' immediately before the first digit); a '-' that is not *)
(* immediately followed by a digit gives no negative NUMBER.               *)
C4_NumberTokenValue ==
    (input.family = "number" /\ Tokenized) =>
        /\ IsLiteral(source) =>
              /\ stage # "lex_raised"
              /\ TokenTypes = <<"NUMBER", "EOF">>
              /\ lexer.tokens[1].value = IntV(Denotes(source))
        /\ ~MinusBeforeDigit(source) =>
              \A i \in DOMAIN lexer.tokens :
                  lexer.tokens[i].type = "NUMBER" => lexer.tokens[i].value.n >= 0

(* The literal `-0` at the end of the source gives no NUMBER token. *)
C4_NoTokenForFinalZero ==
    /\ input.family = "number"
    /\ source = <<"-", "0">>
    /\ stage = "lex_raised"
    /\ lexer.tokens = <<>>

RECURSIVE IdentifierPrefix(_)
IdentifierPrefix(s) ==
    IF s = <<>> \/ ~(IsAlnum(s[1]) \/ s[1] = "_") THEN <<>>
    ELSE <<s[1]>> \o IdentifierPrefix(Tail(s))

StartsIdentifier(s) == s # <<>> /\ (IsAlpha(s[1]) \/ s[1] = "_")

CharAfter(s, name) == IF Len(s) > Len(name) THEN s[Len(name) + 1] ELSE NoneChar

(* The order the claim fixes: ':' first, then R1..R8 as written, then the  *)
(* lexer's keyword table on the uppercased name, then IDENTIFIER.          *)
ClassifiedAs(name, next) ==
    CASE next = ":" -> "LABEL"
      [] next # ":" /\ name \in {<<"R", d>> : d \in {"1", "2", "3", "4", "5", "6", "7", "8"}} ->
            "REGISTER"
      [] OTHER ->
            IF Text(UpperOf(name)) \in DOMAIN KEYWORD_DICT
            THEN Text(UpperOf(name)) ELSE "IDENTIFIER"

(* C5: the identifier read at the start of a source is classified in the   *)
(* fixed order LABEL (followed by ':', whatever the name), REGISTER        *)
(* (exactly R1..R8), keyword, IDENTIFIER, and the token's value is the     *)
(* name; R0, R9 and r1 not followed by ':' are IDENTIFIER.                 *)
C5_ClassificationOrder ==
    (input.family = "ident" /\ StartsIdentifier(source) /\ Tokenized) =>
        /\ lexer.tokens # <<>>
        /\ lexer.tokens[1].type =
              ClassifiedAs(IdentifierPrefix(source),
                           CharAfter(source, IdentifierPrefix(source)))
        /\ lexer.tokens[1].value = StrV(IdentifierPrefix(source))
        /\ ( /\ Text(IdentifierPrefix(source)) \in {"R0", "R9", "r1"}
             /\ CharAfter(source, IdentifierPrefix(source)) # ":" )
              => lexer.tokens[1].type = "IDENTIFIER"

(* `R1:` has been lexed as a LABEL named R1. *)
C5_RegisterNameAsLabel ==
    /\ input.family = "ident"
    /\ source = <<"R", "1", ":">>
    /\ stage = "lexed"
    /\ TokenTypes = <<"LABEL", "EOF">>
    /\ lexer.tokens[1].value = StrV(<<"R", "1">>)

-----------------------------------------------------------------------------
(* Properties of the parser.                                               *)

Parsed == stage \in {"parsed", "generated"}
ParseReturned == stage \in {"parsed", "parse_raised", "generated"}

(* The node variant the grammar gives a statement's leading keyword. *)
Variant(kw) ==
    CASE kw = "VAR" -> "VarDecl"
      [] kw = "LOAD" -> "Load"
      [] kw = "SET" -> "Set"
      [] kw = "MOVE" -> "Move"
      [] kw \in {"ADD", "SUB", "MUL", "DIV", "AND", "OR", "XOR"} -> "BinaryOp"
      [] kw \in {"INC", "DEC", "NOT"} -> "UnaryOp"
      [] kw \in {"SHL", "SHR"} -> "ShiftOp"
      [] kw = "CALL" -> "Call"
      [] kw = "RET" -> "Return"
      [] kw = "PUSH" -> "Push"
      [] kw = "POP" -> "Pop"
      [] kw = "PRINT" -> "Print"
      [] kw = "INPUT" -> "Input"
      [] kw = "HALT" -> "Halt"
      [] kw = "NOP" -> "Nop"

(* C6: a source of k well-formed simple statements on separate lines, with *)
(* or without blank lines and comments around them, lexes and parses to a  *)
(* Program of exactly k statements, in source order, each of the variant   *)
(* of its leading keyword, and the parser's cursor ends on the EOF token.  *)
C6_SimpleStatementsParse ==
    (input.family = "program" /\ stage \notin {"source", "lexed"}) =>
        /\ Parsed
        /\ Len(ast.statements) = Len(input.prog)
        /\ \A i \in DOMAIN input.prog :
              ast.statements[i].node = Variant(Text(input.prog[i][1]))
        /\ parser.tokens[parser.pos + 1].type = "EOF"

(* `PUSH R1`, lexed as IDENTIFIER REGISTER, has been rejected. *)
C6_PushRejected ==
    /\ input.family = "program"
    /\ Text(source) = "PUSH R1"
    /\ stage = "parse_raised"
    /\ lexer.tokens[1].type = "IDENTIFIER"

(* The line on which lexeme number d of a production stands. *)
LineOfLexeme(lex, d) == 1 + Cardinality({i \in 1..(d - 1) : lex[i] = NL})

(* C7: a well-formed statement of any production with one required token  *)
(* removed (leading keyword, comma, operand, the NEWLINE after a block     *)
(* header, closing keyword) makes parse raise a syntax error that cites    *)
(* the line where the token is missing; no Program is returned.            *)
C7_MissingTokenRaises ==
    (input.family = "production" /\ input.drop # 0 /\ stage \notin {"source", "lexed"}) =>
        /\ stage = "parse_raised"
        /\ exc.kind = "SyntaxError"
        /\ exc.line = LineOfLexeme(input.prog[1], input.drop)
        /\ ast = None

(* `FUNC f HALT` NL `ENDFUNC`, the header's NEWLINE removed, has parsed to *)
(* a Program.                                                              *)
C7_HeaderNewlineNotRequired ==
    /\ input.family = "production"
    /\ input.prog[1][1] = Word("FUNC")
    /\ input.drop = 3
    /\ Parsed
    /\ ast.statements[1].node = "Function"

IsNotStatement == input.prog = << <<Word("NOT"), Word("R1")>> >> /\ input.drop = 0

(* C8: the statement `NOT reg` parses to UnaryOp(op = NOT, operand = reg)  *)
(* and is lowered to the single instruction `not <physical reg>`.          *)
C8_NotIsUnary ==
    (IsNotStatement /\ ParseReturned) =>
        /\ Parsed
        /\ ast.statements = << [node |-> "UnaryOp", op |-> StrV(Word("NOT")),
                                operand |-> StrV(Word("R1"))] >>
        /\ stage = "generated" =>
              Cardinality({i \in DOMAIN asm : asm[i] = "    not rax"}) = 1

(* `NOT R1` has been rejected: parse_not expects a comma after the         *)
(* register.                                                               *)
C8_NotRejected ==
    /\ IsNotStatement
    /\ stage = "parse_raised"
    /\ exc = [kind |-> "SyntaxError", line |-> 1]

(* Operand kinds, told apart the way the lexer tells tokens apart. *)
IsReg(v) == IsStr(v) /\ Text(v.s) \in LexerRegisters
IsIdent(v) == IsStr(v) /\ ~IsReg(v)
IsNum(v) == IsInt(v)
OpIn(v, ops) == IsStr(v) /\ Text(v.s) \in ops

ConditionOk(c) ==
    /\ c.node = "Condition"
    /\ OpIn(c.op, {"==", "!=", ">", "<", ">=", "<="})
    /\ IsStr(c.left) \/ IsNum(c.left)
    /\ IsStr(c.right) \/ IsNum(c.right)

(* The tree invariants of one node and of the nodes of its bodies. *)
RECURSIVE NodeOk(_)
BodyOk(body) == \A i \in DOMAIN body : NodeOk(body[i])
NodeOk(n) ==
    CASE n.node = "VarDecl" -> IsIdent(n.name) /\ (n.value = None \/ IsNum(n.value))
      [] n.node = "Load" -> IsReg(n.dest) /\ (IsStr(n.src) \/ IsNum(n.src))
      [] n.node = "Set" -> IsIdent(n.dest) /\ (IsReg(n.src) \/ IsNum(n.src))
      [] n.node = "Move" -> IsReg(n.dest) /\ IsReg(n.src)
      [] n.node = "BinaryOp" ->
            /\ OpIn(n.op, {"ADD", "SUB", "MUL", "DIV", "AND", "OR", "XOR"})
            /\ IsReg(n.dest) /\ IsReg(n.left) /\ (IsReg(n.right) \/ IsNum(n.right))
      [] n.node = "UnaryOp" ->
            /\ OpIn(n.op, {"INC", "DEC", "NOT"})
            /\ IF OpIn(n.op, {"NOT"}) THEN IsReg(n.operand) ELSE IsStr(n.operand)
      [] n.node = "ShiftOp" ->
            /\ OpIn(n.op, {"SHL", "SHR"})
            /\ IsReg(n.dest) /\ IsReg(n.src) /\ IsNum(n.count)
      [] n.node = "Label" -> IsStr(n.name)
      [] n.node = "Call" -> IsIdent(n.name)
      [] n.node = "Return" -> n.value = None \/ IsReg(n.value)
      [] n.node \in {"Push", "Pop"} -> IsReg(n.register)
      [] n.node = "Print" -> IsStr(n.value) \/ IsNum(n.value)
      [] n.node = "Input" -> IsStr(n.dest)
      [] n.node \in {"Halt", "Nop"} -> TRUE
      [] n.node = "Function" -> IsIdent(n.name) /\ BodyOk(n.body)
      [] n.node = "If" ->
            /\ ConditionOk(n.condition)
            /\ BodyOk(n.then_body)
            /\ n.else_body = None \/ BodyOk(n.else_body.items)
      [] n.node = "Loop" -> IsIdent(n.var) /\ IsNum(n.limit) /\ BodyOk(n.body)
      [] n.node = "While" -> ConditionOk(n.condition) /\ BodyOk(n.body)
      [] n.node = "For" ->
            /\ IsIdent(n.var) /\ IsNum(n.start) /\ IsNum(n.end) /\ IsNum(n.step)
            /\ BodyOk(n.body)
      [] n.node = "Repeat" -> ConditionOk(n.condition) /\ BodyOk(n.body)
      [] OTHER -> FALSE

(* The structured blocks of a list of statements, nested ones included. *)
RECURSIVE BlockCount(_)
BlockCount(body) ==
    IF body = <<>> THEN 0
    ELSE BlockCount(Tail(body)) +
         ( CASE body[1].node \in {"Function", "Loop", "While", "For", "Repeat"} ->
                    1 + BlockCount(body[1].body)
             [] body[1].node = "If" ->
                    1 + BlockCount(body[1].then_body)
                      + (IF body[1].else_body = None THEN 0
                         ELSE BlockCount(body[1].else_body.items))
             [] OTHER -> 0 )

ClosingKeywords == {"ENDFUNC", "ENDIF", "ENDLOOP", "ENDWHILE", "ENDFOR", "UNTIL"}
ClosingCount ==
    Cardinality({i \in DOMAIN parser.tokens : parser.tokens[i].type \in ClosingKeywords})

(* C9: every node of every Program parse returns has its op in the closed  *)
(* set of its variant, holds in each operand position only a kind its      *)
(* grammar row allows, and every block has consumed its closing keyword.   *)
C9_TreeInvariants ==
    Parsed =>
        /\ BodyOk(ast.statements)
        /\ BlockCount(ast.statements) = ClosingCount

(* `NOT R1, R2` has parsed to a BinaryOp whose op is NOT. *)
C9_BinaryOpNamedNot ==
    /\ Parsed
    /\ Len(ast.statements) = 1
    /\ ast.statements[1].node = "BinaryOp"
    /\ ast.statements[1].op = StrV(Word("NOT"))

-----------------------------------------------------------------------------
(* Properties of the generated text.                                       *)

LineCount(line) == Cardinality({i \in DOMAIN asm : asm[i] = line})

(* C10: whatever names the functions and variables of a Program have, the  *)
(* text generate returns on a fresh NasmGenerator has exactly one          *)
(* `global _start` line and exactly one `_start:` label line.              *)
C10_OneEntryPoint ==
    stage = "generated" =>
        /\ LineCount("    global _start") = 1
        /\ LineCount("_start:") = 1

(* A function named _start has been generated: its label repeats the       *)
(* entry label.                                                            *)
C10_FunctionNamedStart ==
    /\ stage = "generated"
    /\ Len(ast.statements) = 1
    /\ ast.statements[1].node = "Function"
    /\ ast.statements[1].name = StrV(Word("_start"))
    /\ LineCount("_start:") = 2

-----------------------------------------------------------------------------
(* Programs handed to NasmGenerator.generate.  No source text lexes to a   *)
(* block statement, so the trees are built here as the node classes build  *)
(* them, and generate is called on them as compile_tc_to_nasm calls it.    *)

Chars(t) == [i \in 1..Len(t) |-> SubSeq(t, i, i)]
Str(t) == StrV(Chars(t))

Program(statements) == [node |-> "Program", statements |-> statements]
ConditionNode(left, op, right) ==
    [node |-> "Condition", left |-> left, op |-> Str(op), right |-> right]
Function(name, body) == [node |-> "Function", name |-> Str(name), body |-> body]
If(condition, then_body, else_body) ==
    [node |-> "If", condition |-> condition, then_body |-> then_body,
     else_body |-> else_body]
While(condition, body) == [node |-> "While", condition |-> condition, body |-> body]
For(var, start, end, step, body) ==
    [node |-> "For", var |-> Str(var), start |-> start, end |-> end, step |-> step,
     body |-> body]
Loop(var, limit, body) ==
    [node |-> "Loop", var |-> Str(var), limit |-> limit, body |-> body]
Repeat(body, condition) == [node |-> "Repeat", body |-> body, condition |-> condition]
PrintNode(value) == [node |-> "Print", value |-> value]
InputNode(dest) == [node |-> "Input", dest |-> dest]
Call(name) == [node |-> "Call", name |-> Str(name)]
Load(dest, src) == [node |-> "Load", dest |-> dest, src |-> src]
SetNode(dest, src) == [node |-> "Set", dest |-> dest, src |-> src]
Move(dest, src) == [node |-> "Move", dest |-> dest, src |-> src]
BinaryOp(op, dest, left, right) ==
    [node |-> "BinaryOp", op |-> Str(op), dest |-> dest, left |-> left, right |-> right]
UnaryOp(op, operand) == [node |-> "UnaryOp", op |-> Str(op), operand |-> operand]
ShiftOp(op, dest, src, count) ==
    [node |-> "ShiftOp", op |-> Str(op), dest |-> dest, src |-> src, count |-> count]
Return(value) == [node |-> "Return", value |-> value]
VarDecl(name, value) == [node |-> "VarDecl", name |-> Str(name), value |-> value]
Halt == [node |-> "Halt"]
Nop == [node |-> "Nop"]
Push(register) == [node |-> "Push", register |-> register]
Pop(register) == [node |-> "Pop", register |-> register]
List(items) == [k |-> "list", items |-> items]

(* The block statements; IfElse is an If whose else_body is not empty. *)
BlockKinds == {"If", "IfElse", "While", "For", "Loop", "Repeat", "Function"}

Block(kind, name, body) ==
    CASE kind = "If" -> If(ConditionNode(Str("R1"), "==", IntV(0)), body, None)
      [] kind = "IfElse" ->
            If(ConditionNode(Str("R1"), "!=", Str("x")), body, List(body))
      [] kind = "While" -> While(ConditionNode(Str("R1"), "<", Str("R2")), body)
      [] kind = "For" -> For("i", IntV(1), IntV(2), IntV(1), body)
      [] kind = "Loop" -> Loop("x", IntV(2), body)
      [] kind = "Repeat" -> Repeat(body, ConditionNode(Str("x"), ">=", IntV(3)))
      [] kind = "Function" -> Function(name, body)

(* What the innermost block holds. *)
InnerBodies ==
    { <<>>, <<PrintNode(Str("R1"))>>, <<InputNode(Str("x"))>>, <<Call("f")>>,
      <<Call("main_code")>>, <<UnaryOp("INC", Str("R1")), Halt>> }

MaxDepth == 3
FunctionNames == <<"f", "g", "h", "k">>

RECURSIVE Trees(_)
Trees(depth) ==
    LET name == FunctionNames[depth]
    IN  IF depth = 1 THEN {Block(kind, name, b) : kind \in BlockKinds, b \in InnerBodies}
        ELSE {Block(kind, name, <<t>>) : kind \in BlockKinds, t \in Trees(depth - 1)}

Job(program, layout, stdin) ==
    [family |-> "tree", text |-> stdin, prog |-> program, layout |-> layout, drop |-> 0]

TreePrograms ==
    {Program(b) : b \in InnerBodies}
    \cup {Program(<<t>>) : t \in UNION {Trees(d) : d \in 1..MaxDepth}}
    \cup {Program(<<t, Block(kind, "g", b)>>) :
            t \in Trees(1), kind \in BlockKinds, b \in InnerBodies}

-----------------------------------------------------------------------------
(* Properties of the labels the block statements receive.                  *)

Generated == stage = "generated"

(* The If, While, For, Loop and Repeat nodes of a body, at every depth,    *)
(* function bodies and else bodies included.                               *)
RECURSIVE StructuredIn(_)
RECURSIVE StructuredOf(_)
StructuredIn(body) ==
    IF body = <<>> THEN 0 ELSE StructuredOf(body[1]) + StructuredIn(Tail(body))
StructuredOf(stmt) ==
    CASE stmt.node = "If" ->
            1 + StructuredIn(stmt.then_body)
              + (IF stmt.else_body # None THEN StructuredIn(stmt.else_body.items) ELSE 0)
      [] stmt.node \in {"While", "For", "Loop", "Repeat"} -> 1 + StructuredIn(stmt.body)
      [] stmt.node = "Function" -> StructuredIn(stmt.body)
      [] OTHER -> 0

LabelKinds ==
    { "else", "endif", "while_start", "while_end", "for_start", "for_end",
      "loop_start", "loop_end", "repeat_start" }
LabelLine(kind, n) == kind \o "_" \o ToString(n) \o ":"
LabelsWith(n) == {kind \in LabelKinds : LineCount(LabelLine(kind, n)) > 0}

(* The labels one statement puts down. *)
LabelGroups ==
    { {"else"}, {"else", "endif"}, {"while_start", "while_end"},
      {"for_start", "for_end"}, {"loop_start", "loop_end"}, {"repeat_start"} }

(* C11: within one generate call every structured statement, at any depth  *)
(* and in the main body or a function body, takes one counter value of its *)
(* own: the counter ends at the number of structured statements, each      *)
(* suffix below it labels exactly one statement's group of labels, each    *)
(* label line once, and no label carries a suffix the counter has not      *)
(* reached (so the counter never went back to a value already given out).  *)
C11_LabelSuffixes ==
    Generated =>
        /\ generator.label_counter = StructuredIn(ast.statements)
        /\ \A n \in 0..(generator.label_counter - 1) :
              /\ LabelsWith(n) \in LabelGroups
              /\ \A kind \in LabelsWith(n) : LineCount(LabelLine(kind, n)) = 1
        /\ \A n \in generator.label_counter..(generator.label_counter + 2) :
              LabelsWith(n) = {}

(* An If whose two parts each declare a function holding a Repeat has been *)
(* generated: the If took 0, the two Repeats of the function bodies took 1 *)
(* and 2.                                                                  *)
C11_NestedLabelled ==
    /\ Generated
    /\ generator.label_counter = 3
    /\ Len(generator.functions) = 2
    /\ LabelsWith(0) = {"else", "endif"}
    /\ LabelsWith(1) = {"repeat_start"}
    /\ LabelsWith(2) = {"repeat_start"}

-----------------------------------------------------------------------------
(* Properties of the runtime helpers' presence.                            *)

(* Whether a body holds a node of the given class, at any depth. *)
RECURSIVE HoldsIn(_, _)
RECURSIVE HoldsOf(_, _)
HoldsIn(body, class) ==
    \E i \in DOMAIN body : HoldsOf(body[i], class)
HoldsOf(stmt, class) ==
    \/ stmt.node = class
    \/ /\ stmt.node = "If"
       /\ \/ HoldsIn(stmt.then_body, class)
          \/ stmt.else_body # None /\ HoldsIn(stmt.else_body.items, class)
    \/ /\ stmt.node \in {"While", "For", "Loop", "Repeat", "Function"}
       /\ HoldsIn(stmt.body, class)

Once(present) == IF present THEN 1 ELSE 0

(* C12: the text holds the print_int helper with its newline and           *)
(* digit_buffer data lines exactly when the Program holds a Print at any   *)
(* depth, the read_int helper with input_buffer exactly when it holds an   *)
(* Input, and each of them once.                                           *)
C12_HelpersIffUsed ==
    Generated =>
        /\ LineCount("print_int:") = Once(HoldsIn(ast.statements, "Print"))
        /\ LineCount("    newline db 10") = Once(HoldsIn(ast.statements, "Print"))
        /\ LineCount("    digit_buffer times " \o ToString(DIGIT_BUFFER_SIZE) \o " db 0")
              = Once(HoldsIn(ast.statements, "Print"))
        /\ LineCount("read_int:") = Once(HoldsIn(ast.statements, "Input"))
        /\ LineCount("    input_buffer times " \o ToString(INPUT_BUFFER_SIZE) \o " db 0")
              = Once(HoldsIn(ast.statements, "Input"))

(* A Program whose only Print stands in a function declared inside another *)
(* function has been generated with one call, one print_int helper and    *)
(* no read_int helper.                                                     *)
C12_PrintInNestedFunction ==
    /\ Generated
    /\ Len(ast.statements) = 1
    /\ ast.statements[1].node = "Function"
    /\ Len(generator.functions) = 3
    /\ generator.functions[3].body = <<PrintNode(Str("R1"))>>
    /\ LineCount("    call print_int") = 1
    /\ LineCount("print_int:") = 1
    /\ LineCount("read_int:") = 0

-----------------------------------------------------------------------------
(* Properties of where the functions are emitted.                          *)

(* The Function nodes of a body, at any depth, one entry per node. *)
RECURSIVE FunctionsIn(_)
RECURSIVE FunctionsOf(_)
FunctionsIn(body) ==
    IF body = <<>> THEN <<>> ELSE FunctionsOf(body[1]) \o FunctionsIn(Tail(body))
FunctionsOf(stmt) ==
    CASE stmt.node = "Function" -> <<stmt>> \o FunctionsIn(stmt.body)
      [] stmt.node = "If" ->
            FunctionsIn(stmt.then_body)
            \o (IF stmt.else_body # None THEN FunctionsIn(stmt.else_body.items) ELSE <<>>)
      [] stmt.node \in {"While", "For", "Loop", "Repeat"} -> FunctionsIn(stmt.body)
      [] OTHER -> <<>>

(* How many lines of text a body stands for, a nested Function standing   *)
(* for none; Unsized marks a statement that is left out of this count.    *)
Unsized == 0 - 1000
RECURSIVE LinesIn(_)
RECURSIVE LinesOf(_)
LinesIn(body) == IF body = <<>> THEN 0 ELSE LinesOf(body[1]) + LinesIn(Tail(body))
LinesOf(stmt) ==
    CASE stmt.node \in {"Function", "VarDecl"} -> 0
      [] stmt.node \in {"Call", "Nop", "UnaryOp", "Load", "Set"} -> 1
      [] stmt.node \in {"Print", "Input"} -> 2
      [] stmt.node = "Return" -> IF is_register(stmt.value) THEN 2 ELSE 1
      [] stmt.node = "Move" -> IF is_register(stmt.src) THEN 1 ELSE 2
      [] stmt.node = "ShiftOp" -> IF get_register(stmt.dest) = get_register(stmt.src) THEN 1 ELSE 2
      [] stmt.node = "BinaryOp" /\ ~StrEq(stmt.op, "DIV") ->
            IF get_register(stmt.dest) = get_register(stmt.left) THEN 1 ELSE 2
      [] stmt.node = "BinaryOp" ->
            LET If1(b) == IF b THEN 1 ELSE 0
            IN  2 * If1(get_register(stmt.dest) # "rdx")
                + 3 * If1(get_register(stmt.dest) # "rax")
                + If1(get_register(stmt.left) # "rax")
                + 1 + (IF IsInt(stmt.right) THEN 4 ELSE 1)
      [] stmt.node = "Halt" -> 3
      [] stmt.node \in {"Push", "Pop"} -> 0
      [] stmt.node = "If" ->
            IF stmt.else_body # None /\ stmt.else_body.items # <<>>
            THEN 4 + LinesIn(stmt.then_body) + 2 + LinesIn(stmt.else_body.items) + 1
            ELSE 4 + LinesIn(stmt.then_body) + 1
      [] stmt.node = "While" -> 1 + 4 + LinesIn(stmt.body) + 2
      [] stmt.node \in {"For", "Loop"} -> 2 + 4 + LinesIn(stmt.body) + 3
      [] stmt.node = "Repeat" -> 1 + LinesIn(stmt.body) + 4
      [] OTHER -> Unsized

RECURSIVE EmittedLines(_)
EmittedLines(functions) ==
    IF functions = <<>> THEN 0
    ELSE 1 + LinesIn(functions[1].body) + EmittedLines(Tail(functions))

FunctionLabel(function) == Fmt(function.name) \o ":"
Declared == FunctionsIn(ast.statements)
FunctionLabelAt ==
    {p \in DOMAIN asm : \E k \in DOMAIN Declared : asm[p] = FunctionLabel(Declared[k])}
MainLabelAt == CHOOSE p \in DOMAIN asm : asm[p] = "main_code:"
MainEndsAt == MainLabelAt + LinesIn(ast.statements)
ExitAt == MainEndsAt + EmittedLines(Declared) + 1

(* C13: every Function node, wherever it is declared, is emitted once as   *)
(* its label followed by the lines of its own body; the labels come after  *)
(* the last line of the main body and before the final exit code, each     *)
(* function's lines end where the next function's label or the exit code   *)
(* stands, and no function label stands inside another function's lines.   *)
C13_FunctionsHoisted ==
    Generated /\ LinesIn(ast.statements) >= 0 =>
        /\ Cardinality(FunctionLabelAt) = Len(Declared)
        /\ \A k \in DOMAIN Declared :
              LineCount(FunctionLabel(Declared[k]))
                 = Cardinality({j \in DOMAIN Declared :
                                   Declared[j].name = Declared[k].name})
        /\ \A p \in FunctionLabelAt : MainEndsAt < p /\ p < ExitAt
        /\ Declared # <<>> => MainEndsAt + 1 \in FunctionLabelAt
        /\ \A p \in FunctionLabelAt :
              \E k \in DOMAIN Declared :
                 /\ asm[p] = FunctionLabel(Declared[k])
                 /\ LET q == p + 1 + LinesIn(Declared[k].body)
                    IN  /\ q = ExitAt \/ q \in FunctionLabelAt
                        /\ \A r \in FunctionLabelAt : ~(p < r /\ r < q)
        /\ ExitAt + 2 \in DOMAIN asm
        /\ asm[ExitAt] = "    mov rax, " \o ToString(SYS_EXIT)
        /\ asm[ExitAt + 1] = "    mov rdi, 0"
        /\ asm[ExitAt + 2] = "    syscall"

(* A function declared in a function that is declared in a loop body has   *)
(* been emitted: both labels stand after the loop's end label.             *)
C13_NestedFunctionEmitted ==
    /\ Generated
    /\ Len(ast.statements) = 1
    /\ ast.statements[1].node = "While"
    /\ Len(Declared) = 2
    /\ Declared[2].body = <<Call("f")>>
    /\ asm[MainEndsAt] = "while_end_0:"
    /\ asm[MainEndsAt + 1] = "g:"
    /\ asm[MainEndsAt + 2] = "f:"
    /\ asm[MainEndsAt + 3] = "    call f"

-----------------------------------------------------------------------------
(* Properties of calls and the labels they name.                           *)

(* The labels generate puts down on its own account. *)
GeneratorLabels == {"_start", "main_code", "print_int", "read_int"}
CallableNames == {FunctionNames[i] : i \in DOMAIN FunctionNames} \cup GeneratorLabels
CalledInText == {name \in CallableNames : LineCount("    call " \o name) > 0}
HasLabel(name) == LineCount(name \o ":") > 0
HasFunction(name) == \E k \in DOMAIN Declared : Fmt(Declared[k].name) = name

-----------------------------------------------------------------------------
(* The emitted text as the assembler reads it (NASM syntax, x86-64).       *)

CharAt(s, i) == SubSeq(s, i, i)
Positions(s, c) == {i \in 1..Len(s) : CharAt(s, i) = c}
First(S) == CHOOSE i \in S : \A j \in S : i <= j
Last(S) == CHOOSE i \in S : \A j \in S : j <= i
StartsWith(s, prefix) == Len(s) >= Len(prefix) /\ SubSeq(s, 1, Len(prefix)) = prefix

(* A line without its comment and the blanks around it. *)
Uncommented(s) ==
    IF Positions(s, ";") = {} THEN s ELSE SubSeq(s, 1, First(Positions(s, ";")) - 1)
Inked(s) == {i \in 1..Len(s) : CharAt(s, i) # " "}
Trim(s) == IF Inked(s) = {} THEN "" ELSE SubSeq(s, First(Inked(s)), Last(Inked(s)))
Code(line) == Trim(Uncommented(line))

Before(s, c) == Trim(SubSeq(s, 1, First(Positions(s, c)) - 1))
After(s, c) == Trim(SubSeq(s, First(Positions(s, c)) + 1, Len(s)))

Mnemonic(code) == IF Positions(code, " ") = {} THEN code ELSE Before(code, " ")
OperandText(code) ==
    LET Split(rest) == IF Positions(rest, ",") = {} THEN <<rest>>
                       ELSE <<Before(rest, ","), After(rest, ",")>>
    IN  IF Positions(code, " ") = {} THEN <<>> ELSE Split(After(code, " "))

Registers64 ==
    { "rax", "rbx", "rcx", "rdx", "rsi", "rdi", "r8", "r9",
      "r10", "r11", "r12", "r13", "r14", "r15" }
(* The low bytes the helpers name, and the register each belongs to. *)
LowByteOf == [b \in {"dl", "r14b"} |-> IF b = "dl" THEN "rdx" ELSE "r14"]

(* ASCII codes of the characters the helpers and the input use. *)
CharCode(c) ==
    CASE c \in Digits -> 48 + DigitVal(c)
      [] c = "-" -> 45
      [] c = "\n" -> 10
      [] c = " " -> 32
      [] OTHER -> 63

IsNumeral(s) ==
    LET IsDigits(d) == d # "" /\ \A i \in 1..Len(d) : CharAt(d, i) \in Digits
    IN  IF StartsWith(s, "-") THEN IsDigits(SubSeq(s, 2, Len(s))) ELSE IsDigits(s)
IsCharLiteral(s) == Len(s) = 3 /\ CharAt(s, 1) = "'" /\ CharAt(s, 3) = "'"

(* A number, a character, a register, or a symbol with an offset. *)
Term(s) ==
    CASE s \in Registers64 -> [k |-> "reg", r |-> s, size |-> 8]
      [] IsNumeral(s) -> [k |-> "imm", n |-> int(Chars(s), 10).n]
      [] IsCharLiteral(s) -> [k |-> "imm", n |-> CharCode(CharAt(s, 2))]
      [] Positions(s, "+") # {} /\ IsNumeral(After(s, "+")) ->
            [k |-> "sym", name |-> Before(s, "+"), off |-> int(Chars(After(s, "+")), 10).n]
      [] OTHER -> [k |-> "sym", name |-> s, off |-> 0]

Bracketed(s, prefix) == StartsWith(s, prefix) /\ CharAt(s, Len(s)) = "]"
Inside(s, prefix) == Trim(SubSeq(s, Len(prefix) + 1, Len(s) - 1))

Operand(s) ==
    CASE Bracketed(s, "qword [") -> [k |-> "mem", size |-> 8, at |-> Term(Inside(s, "qword ["))]
      [] Bracketed(s, "byte [") -> [k |-> "mem", size |-> 1, at |-> Term(Inside(s, "byte ["))]
      [] Bracketed(s, "[") -> [k |-> "mem", size |-> 0, at |-> Term(Inside(s, "["))]
      [] s \in DOMAIN LowByteOf -> [k |-> "reg", r |-> LowByteOf[s], size |-> 1]
      [] OTHER -> Term(s)

LineKind(line) ==
    LET Kind(code) ==
            CASE code = "" -> "blank"
              [] CharAt(code, Len(code)) = ":" -> "label"
              [] Mnemonic(code) \in {"section", "global"} -> "directive"
              [] OTHER -> "instruction"
    IN  Kind(Code(line))

Decode(line) ==
    LET Parts(code) ==
            [op |-> Mnemonic(code),
             args |-> [i \in DOMAIN OperandText(code) |-> Operand(OperandText(code)[i])]]
    IN  Parts(Code(line))

-----------------------------------------------------------------------------
(* The process image: where the linker puts data and code, and what the    *)
(* data and bss lines reserve.                                             *)

DataBase == 4202496
TextBase == 4198400

RECURSIVE Words(_)
Words(s) ==
    IF s = "" THEN <<>>
    ELSE IF Positions(s, " ") = {} THEN <<s>>
    ELSE <<Before(s, " ")>> \o Words(After(s, " "))

TextStart(text) == First({i \in DOMAIN text : text[i] = "section .text"})

(* A data or bss line: name, unit size in bytes, count, initial value. *)
Reservation(words) ==
    CASE Len(words) = 3 /\ words[2] = "dq" /\ IsNumeral(words[3]) ->
            [name |-> words[1], unit |-> 8, count |-> 1, v |-> int(Chars(words[3]), 10).n]
      [] Len(words) = 3 /\ words[2] = "resq" /\ IsNumeral(words[3]) ->
            [name |-> words[1], unit |-> 8, count |-> int(Chars(words[3]), 10).n, v |-> 0]
      [] Len(words) = 3 /\ words[2] = "db" /\ IsNumeral(words[3]) ->
            [name |-> words[1], unit |-> 1, count |-> 1, v |-> int(Chars(words[3]), 10).n]
      [] Len(words) = 5 /\ words[2] = "times" /\ IsNumeral(words[3]) /\ words[4] = "db"
           /\ IsNumeral(words[5]) ->
            [name |-> words[1], unit |-> 1, count |-> int(Chars(words[3]), 10).n,
             v |-> int(Chars(words[5]), 10).n]
      [] OTHER -> [name |-> "", unit |-> 0, count |-> 0, v |-> 0]

(* The reservations of the lines before the text section, each with the    *)
(* address it is given.                                                    *)
RECURSIVE Layout(_, _, _)
Layout(text, i, addr) ==
    LET Placed(res) ==
            <<[res EXCEPT !.v = @] @@ [addr |-> addr]>>
            \o Layout(text, i + 1, addr + res.unit * res.count)
    IN  IF i >= TextStart(text) THEN <<>>
        ELSE IF StartsWith(text[i], "    ") THEN Placed(Reservation(Words(Code(text[i]))))
        ELSE Layout(text, i + 1, addr)

Symbols(text) == Layout(text, 1, DataBase)

(* Memory: one cell per reserved qword, at its first address, and one per  *)
(* reserved byte.                                                          *)
InitialMemory(symbols) ==
    LET cells == UNION { {[addr |-> symbols[k].addr + j * symbols[k].unit,
                           size |-> symbols[k].unit, v |-> symbols[k].v] :
                            j \in 0..(symbols[k].count - 1)} : k \in DOMAIN symbols }
    IN  [a \in {c.addr : c \in cells} |->
            LET c == CHOOSE c \in cells : c.addr = a IN [size |-> c.size, v |-> c.v]]

(* Code labels: the line of the label, as an address. *)
LabelLines(text, name) == {i \in DOMAIN text : text[i] = name \o ":"}
IsInstruction(line) == StartsWith(line, "    ") /\ ~StartsWith(line, "    global ")

(* The address a symbol stands for; Undefined when nothing defines it or   *)
(* two lines do.                                                           *)
Undefined == 0 - 1
AddressOf(text, symbols, name) ==
    LET data == {k \in DOMAIN symbols : symbols[k].name = name}
        code == LabelLines(text, name)
    IN  IF Cardinality(data) + Cardinality(code) # 1 THEN Undefined
        ELSE IF data # {} THEN symbols[CHOOSE k \in data : TRUE].addr
        ELSE TextBase + (CHOOSE i \in code : TRUE)

-----------------------------------------------------------------------------
(* Arithmetic of the machine. A register holds a signed 64-bit value; the  *)
(* model follows values of magnitude up to MaxWord and stops the run       *)
(* ("unmodelled") where a result leaves that range.                        *)

MaxWord == 500000000
Words64 == (0 - MaxWord)..MaxWord
InWord(v) == v >= 0 - MaxWord /\ v <= MaxWord

(* Two's complement bit operations on integers of any sign. *)
RECURSIVE Bitwise(_, _, _)
Bitwise(op, a, b) ==
    LET Bit(x, y) == CASE op = "and" -> IF x = 1 /\ y = 1 THEN 1 ELSE 0
                       [] op = "or" -> IF x = 1 \/ y = 1 THEN 1 ELSE 0
                       [] OTHER -> IF x # y THEN 1 ELSE 0
    IN  IF a \in {0, 0 - 1} /\ b \in {0, 0 - 1}
        THEN 0 - Bit(0 - a, 0 - b)
        ELSE 2 * Bitwise(op, a \div 2, b \div 2) + Bit(a % 2, b % 2)

(* The value of a byte read as a signed number. *)
SignedByte(b) == IF b >= 128 THEN b - 256 ELSE b

(* a below b when both are read as unsigned values of the same width. *)
Below(a, b) == IF (a < 0) = (b < 0) THEN a < b ELSE b < 0

(* Flags: each is the set of values it may have (both, when the            *)
(* instruction leaves it undefined).                                       *)
Is(b) == {b}
Either == BOOLEAN
StartFlags == [zf |-> Is(FALSE), sf |-> Is(FALSE), cf |-> Is(FALSE), of |-> Is(FALSE)]

(* The result of an operation in a width of size bytes, and the flags. *)
Wrapped(size, v) == IF size = 1 THEN v % 256 ELSE v
Negative(size, r) == IF size = 1 THEN r >= 128 ELSE r < 0
Overflows(size, a, b, sum) ==
    IF size = 1 THEN LET s == IF sum THEN SignedByte(a) + SignedByte(b)
                              ELSE SignedByte(a) - SignedByte(b)
                     IN  s > 127 \/ s < 0 - 128
    ELSE FALSE
Carries(size, a, b, sum) ==
    IF size = 1 THEN (IF sum THEN a + b > 255 ELSE a < b)
    ELSE IF sum THEN (IF (a < 0) /\ (b < 0) THEN TRUE
                      ELSE IF (a >= 0) /\ (b >= 0) THEN FALSE
                      ELSE a + b >= 0)
    ELSE Below(a, b)

ArithFlags(size, a, b, sum) ==
    LET r == Wrapped(size, IF sum THEN a + b ELSE a - b)
    IN  [zf |-> Is(r = 0), sf |-> Is(Negative(size, r)),
         cf |-> Is(Carries(size, a, b, sum)), of |-> Is(Overflows(size, a, b, sum))]
LogicFlags(size, r) ==
    [zf |-> Is(r = 0), sf |-> Is(Negative(size, r)), cf |-> Is(FALSE), of |-> Is(FALSE)]

(* The outcomes a conditional jump may have under the flags. *)
JumpConditions ==
    {"je", "jz", "jne", "jnz", "js", "jns", "jb", "ja", "jl", "jge", "jle", "jg"}
Holds(cc, z, s, c, o) ==
    CASE cc \in {"je", "jz"} -> z
      [] cc \in {"jne", "jnz"} -> ~z
      [] cc = "js" -> s
      [] cc = "jns" -> ~s
      [] cc = "jb" -> c
      [] cc = "ja" -> ~c /\ ~z
      [] cc = "jl" -> s # o
      [] cc = "jge" -> s = o
      [] cc = "jle" -> z \/ s # o
      [] OTHER -> ~z /\ s = o
Outcomes(cc, flags) ==
    {Holds(cc, z, s, c, o) : z \in flags.zf, s \in flags.sf, c \in flags.cf, o \in flags.of}

-----------------------------------------------------------------------------
(* The machine: a Linux x86-64 process running the assembled text.         *)
(*   status  "off" | "rejected" (the assembler refuses the text) | "run"   *)
(*           | "exit" | "fault" | "unmodelled" (the model cannot follow)   *)
(*   pc      the line of the instruction to execute next                   *)
(*   via     how control reached pc, and from which line                   *)

MaxSteps == 150
Argc == 1

NextInstruction(text, i) ==
    LET later == {j \in i..Len(text) : j > TextStart(text) /\ IsInstruction(text[j])}
    IN  IF i < 1 \/ i > Len(text) \/ later = {} THEN 0 ELSE First(later)

Stopped(c, status) == [c EXCEPT !.status = status]

(* Control goes to the first instruction at or after the given line. *)
Goto(text, c, line, how) ==
    LET Arrive(target) ==
            IF target = 0 THEN Stopped(c, "fault")
            ELSE [c EXCEPT !.pc = target, !.via = [how |-> how, from |-> c.pc]]
    IN  Arrive(NextInstruction(text, line))
Advance(text, c) == Goto(text, c, c.pc + 1, "next")

Address(text, c, term) ==
    CASE term.k = "reg" -> c.regs[term.r]
      [] term.k = "imm" -> term.n
      [] OTHER -> AddressOf(text, c.symbols, term.name) + term.off

(* The width of an instruction: a byte when it names a byte, else a qword. *)
Sized(o) == IF o.k \in {"reg", "mem"} THEN o ELSE o @@ [size |-> 0]
Width(ins) == IF \E i \in DOMAIN ins.args : Sized(ins.args[i]).size = 1 THEN 1 ELSE 8

(* Every memory operand read or written names a cell of the instruction's  *)
(* width (lea only computes the address).                                  *)
Mapped(text, c, ins) ==
    \A i \in DOMAIN ins.args :
        (ins.args[i].k = "mem" /\ ins.op # "lea") =>
            LET Cell(a) == a \in DOMAIN c.mem /\ c.mem[a].size = Width(ins)
            IN  Cell(Address(text, c, ins.args[i].at))

Get(text, c, o, size) ==
    CASE o.k = "reg" -> Wrapped(size, c.regs[o.r])
      [] o.k = "imm" -> Wrapped(size, o.n)
      [] o.k = "mem" -> c.mem[Address(text, c, o.at)].v
      [] OTHER -> Address(text, c, o)

Put(text, c, o, size, v) ==
    IF o.k = "reg"
    THEN [c EXCEPT !.regs[o.r] = IF size = 1 THEN @ - (@ % 256) + (v % 256) ELSE v]
    ELSE LET Store(a) == [c EXCEPT !.mem[a] = [size |-> size, v |-> Wrapped(size, v)]]
         IN  Store(Address(text, c, o.at))

(* What the assembler accepts. *)
TwoOperand == {"mov", "add", "sub", "and", "or", "xor", "cmp", "test"}
OneOperand == {"inc", "dec", "not", "neg", "div"}
Transfers == JumpConditions \cup {"jmp", "call"}
NoOperand == {"ret", "syscall", "nop"}

Defined(text, symbols, o) ==
    CASE o.k = "sym" -> AddressOf(text, symbols, o.name) # Undefined
      [] o.k = "mem" /\ o.at.k = "sym" -> AddressOf(text, symbols, o.at.name) # Undefined
      [] OTHER -> TRUE

Valid(text, symbols, ins) ==
    LET a == [i \in DOMAIN ins.args |-> Sized(ins.args[i])]
        n == Len(ins.args)
        widths == {a[i].size : i \in DOMAIN a} \ {0}
    IN  /\ \A i \in DOMAIN a : Defined(text, symbols, a[i])
        /\ CASE ins.op \in TwoOperand ->
                    /\ n = 2 /\ a[1].k \in {"reg", "mem"}
                    /\ ~(a[1].k = "mem" /\ a[2].k = "mem")
                    /\ Cardinality(widths) = 1
             [] ins.op = "imul" -> n = 2 /\ a[1].k = "reg" /\ a[1].size = 8 /\ widths = {8}
             [] ins.op = "lea" -> n = 2 /\ a[1].k = "reg" /\ a[1].size = 8 /\ a[2].k = "mem"
             [] ins.op = "movzx" ->
                    /\ n = 2 /\ a[1].k = "reg" /\ a[1].size = 8
                    /\ a[2].k \in {"reg", "mem"} /\ a[2].size = 1
             [] ins.op \in {"shl", "shr"} ->
                    /\ n = 2 /\ a[1].k \in {"reg", "mem"} /\ a[1].size # 0 /\ a[2].k = "imm"
             [] ins.op \in OneOperand -> n = 1 /\ a[1].k \in {"reg", "mem"} /\ a[1].size # 0
             [] ins.op = "push" ->
                    n = 1 /\ (a[1].k = "imm" \/ (a[1].k \in {"reg", "mem"} /\ a[1].size = 8))
             [] ins.op = "pop" -> n = 1 /\ a[1].k \in {"reg", "mem"} /\ a[1].size = 8
             [] ins.op \in Transfers ->
                    n = 1 /\ a[1].k = "sym" /\ a[1].off = 0 /\ LabelLines(text, a[1].name) # {}
             [] ins.op \in NoOperand -> n = 0
             [] OTHER -> FALSE

Assembles(text, symbols) ==
    /\ \A k \in DOMAIN symbols : symbols[k].unit # 0
    /\ \A i \in DOMAIN text :
          /\ (i > TextStart(text) /\ IsInstruction(text[i])) => Valid(text, symbols, Decode(text[i]))
          /\ LineKind(text[i]) = "label" =>
                \A j \in DOMAIN text : text[j] = text[i] => j = i
    /\ LabelLines(text, "_start") # {}

-----------------------------------------------------------------------------
(* One instruction. pick resolves what the machine state leaves open: the  *)
(* outcome of a jump on an undefined flag and the flag bits the model does *)
(* not keep.                                                               *)

MaxShift == 20
RECURSIVE Power2(_)
Power2(n) == IF n = 0 THEN 1 ELSE 2 * Power2(n - 1)
Abs(v) == IF v < 0 THEN 0 - v ELSE v

(* Store a result, stopping the run when the model cannot hold it. *)
Result(text, c, o, size, v, flags) ==
    IF InWord(v) THEN Put(text, [c EXCEPT !.flags = flags], o, size, v)
    ELSE Stopped(c, "unmodelled")

Onward(text, c) == IF c.status = "run" THEN Advance(text, c) ELSE c

(* rflags as syscall leaves it in r11: the flags kept here, the reserved   *)
(* bit 1, the interrupt flag, and the parity and adjust bits picked.       *)
FlagsWord(flags, pick) ==
    LET Bit(set, weight) == IF TRUE \in set THEN weight ELSE 0
    IN  514 + Bit(flags.cf, 1) + Bit(flags.zf, 64) + Bit(flags.sf, 128) + Bit(flags.of, 2048)
        + 4 * (pick.bits % 2) + 16 * (pick.bits \div 2)

RECURSIVE Bytes(_, _, _)
Bytes(mem, a, n) == IF n <= 0 THEN <<>> ELSE <<mem[a].v>> \o Bytes(mem, a + 1, n - 1)
Readable(mem, a, n) == \A k \in 0..(n - 1) : (a + k) \in DOMAIN mem /\ mem[a + k].size = 1

Min(a, b) == IF a < b THEN a ELSE b

syscall(text, c, pick) ==
    LET k == [c EXCEPT !.regs["rcx"] = TextBase + c.pc + 1,
                       !.regs["r11"] = FlagsWord(c.flags, pick)]
        nr == c.regs["rax"]
        fd == c.regs["rdi"]
        buf == c.regs["rsi"]
        count == c.regs["rdx"]
        got == Min(Len(c.inp), count)
    IN  CASE nr = 60 -> [Stopped(k, "exit") EXCEPT !.code = fd % 256]
          [] nr = 1 /\ fd = 1 /\ count >= 0 /\ Readable(c.mem, buf, count) ->
                Advance(text, [k EXCEPT !.out = @ \o Bytes(c.mem, buf, count),
                                        !.regs["rax"] = count])
          [] nr = 0 /\ fd = 0 /\ count >= 0 /\ Readable(c.mem, buf, got) ->
                Advance(text, [k EXCEPT
                    !.mem = [a \in DOMAIN @ |->
                                IF a >= buf /\ a < buf + got
                                THEN [size |-> 1, v |-> c.inp[a - buf + 1]] ELSE @[a]],
                    !.inp = SubSeq(@, got + 1, Len(@)),
                    !.regs["rax"] = got])
          [] OTHER -> Stopped(c, "unmodelled")

Execute(text, c, ins, pick) ==
    LET a == ins.args
        w == Width(ins)
        op == ins.op
        V(i) == Get(text, c, a[i], w)
        line == IF a # <<>> /\ a[1].k = "sym"
                THEN AddressOf(text, c.symbols, a[1].name) - TextBase ELSE 0
    IN  CASE op = "mov" -> Onward(text, Result(text, c, a[1], w, V(2), c.flags))
          [] op = "lea" ->
                Onward(text, Result(text, c, a[1], 8, Address(text, c, a[2].at), c.flags))
          [] op = "movzx" -> Onward(text, Result(text, c, a[1], 8, Get(text, c, a[2], 1), c.flags))
          [] op = "add" ->
                Onward(text, Result(text, c, a[1], w, V(1) + V(2), ArithFlags(w, V(1), V(2), TRUE)))
          [] op = "sub" ->
                Onward(text, Result(text, c, a[1], w, V(1) - V(2), ArithFlags(w, V(1), V(2), FALSE)))
          [] op = "cmp" -> Onward(text, [c EXCEPT !.flags = ArithFlags(w, V(1), V(2), FALSE)])
          [] op \in {"and", "or", "xor"} ->
                LET Stored(r) == Result(text, c, a[1], w, r, LogicFlags(w, r))
                IN  Onward(text, Stored(Bitwise(op, V(1), V(2))))
          [] op = "test" ->
                LET Tested(r) == [c EXCEPT !.flags = LogicFlags(w, r)]
                IN  Onward(text, Tested(Bitwise("and", V(1), V(2))))
          [] op = "inc" ->
                Onward(text, Result(text, c, a[1], w, V(1) + 1,
                                  [ArithFlags(w, V(1), 1, TRUE) EXCEPT !.cf = c.flags.cf]))
          [] op = "dec" ->
                Onward(text, Result(text, c, a[1], w, V(1) - 1,
                                  [ArithFlags(w, V(1), 1, FALSE) EXCEPT !.cf = c.flags.cf]))
          [] op = "neg" ->
                Onward(text, Result(text, c, a[1], w, 0 - V(1), ArithFlags(w, 0, V(1), FALSE)))
          [] op = "not" -> Onward(text, Result(text, c, a[1], w, 0 - V(1) - 1, c.flags))
          [] op = "imul" ->
                IF V(2) # 0 /\ Abs(V(1)) > MaxWord \div Abs(V(2))
                THEN Stopped(c, "unmodelled")
                ELSE Onward(text, Result(text, c, a[1], 8, V(1) * V(2),
                        [zf |-> Either, sf |-> Either, cf |-> Is(FALSE), of |-> Is(FALSE)]))
          [] op = "shl" ->
                LET n == V(2) % 64
                IN  IF n = 0 THEN Onward(text, c)
                    ELSE IF n > MaxShift \/ Abs(V(1)) > MaxWord \div Power2(n)
                    THEN Stopped(c, "unmodelled")
                    ELSE Onward(text, Result(text, c, a[1], 8, V(1) * Power2(n),
                            [LogicFlags(8, V(1) * Power2(n)) EXCEPT
                                !.cf = Is(V(1) < 0), !.of = IF n = 1 THEN Is(FALSE) ELSE Either]))
          [] op = "shr" ->
                LET n == V(2) % 64
                IN  IF n = 0 THEN Onward(text, c)
                    ELSE IF n > MaxShift \/ V(1) < 0 THEN Stopped(c, "unmodelled")
                    ELSE Onward(text, Result(text, c, a[1], 8, V(1) \div Power2(n),
                            [LogicFlags(8, V(1) \div Power2(n)) EXCEPT
                                !.cf = Is((V(1) \div Power2(n - 1)) % 2 = 1),
                                !.of = IF n = 1 THEN Is(FALSE) ELSE Either]))
          [] op = "div" ->
                IF V(1) = 0 THEN Stopped(c, "fault")
                ELSE IF V(1) < 0 \/ c.regs["rax"] < 0 \/ c.regs["rdx"] # 0
                THEN Stopped(c, "unmodelled")
                ELSE Onward(text, [c EXCEPT !.regs["rax"] = @ \div V(1),
                                          !.regs["rdx"] = c.regs["rax"] % V(1),
                                          !.flags = [zf |-> Either, sf |-> Either,
                                                     cf |-> Either, of |-> Either]])
          [] op = "push" -> Onward(text, [c EXCEPT !.stack = Append(@, V(1))])
          [] op = "pop" ->
                IF Len(c.stack) <= 1 THEN Stopped(c, "unmodelled")
                ELSE Onward(text, Result(text, [c EXCEPT !.stack = SubSeq(@, 1, Len(@) - 1)],
                                       a[1], 8, c.stack[Len(c.stack)], c.flags))
          [] op = "jmp" -> Goto(text, c, line, "jump")
          [] op \in JumpConditions ->
                IF pick.taken THEN Goto(text, c, line, "jump") ELSE Advance(text, c)
          [] op = "call" ->
                Goto(text, [c EXCEPT !.stack = Append(@, TextBase + c.pc + 1)], line, "call")
          [] op = "ret" ->
                Goto(text, [c EXCEPT !.stack = SubSeq(@, 1, Len(@) - 1)],
                     c.stack[Len(c.stack)] - TextBase, "ret")
          [] op = "syscall" -> syscall(text, c, pick)
          [] OTHER -> Advance(text, c)

(* What a step may pick. *)
Picks(c, ins) ==
    IF ins.op \in JumpConditions
    THEN {[taken |-> t, bits |-> 0] : t \in Outcomes(ins.op, c.flags)}
    ELSE IF ins.op = "syscall" THEN {[taken |-> FALSE, bits |-> b] : b \in 0..3}
    ELSE {[taken |-> FALSE, bits |-> 0]}

(* The process as the kernel starts it: registers zero, argc on the stack, *)
(* control at _start.                                                      *)
Boot(text, stdin) ==
    LET Image(symbols) ==
            [status |-> IF Assembles(text, symbols) THEN "run" ELSE "rejected",
             pc |-> IF Assembles(text, symbols)
                    THEN NextInstruction(text, First(LabelLines(text, "_start"))) ELSE 0,
             via |-> [how |-> "start", from |-> 0],
             regs |-> [r \in Registers64 |-> 0],
             flags |-> StartFlags,
             mem |-> InitialMemory(symbols),
             symbols |-> symbols,
             stack |-> <<Argc>>,
             out |-> <<>>,
             inp |-> [i \in DOMAIN stdin |-> CharCode(stdin[i])],
             code |-> 0,
             steps |-> 0]
    IN  Image(Symbols(text))

Tick(c) == [c EXCEPT !.steps = @ + 1]

(* Assemble, link and start the emitted program. *)
Start ==
    /\ stage = "generated"
    /\ exc = NoExc
    /\ cpu = PowerOff
    /\ input.layout = "run"
    /\ cpu' = Boot(asm, input.text)
    /\ UNCHANGED <<input, source, stage, lexer, parser, ast, generator, exc, asm, session>>

(* The processor executes the instruction at pc. *)
Step ==
    /\ cpu.status = "run"
    /\ cpu.steps < MaxSteps
    /\ LET Run(ins) ==
            IF Mapped(asm, cpu, ins)
            THEN \E pick \in Picks(cpu, ins) : cpu' = Tick(Execute(asm, cpu, ins, pick))
            ELSE cpu' = Tick(Stopped(cpu, "unmodelled"))
       IN  Run(Decode(asm[cpu.pc]))
    /\ UNCHANGED <<input, source, stage, lexer, parser, ast, generator, exc, asm, session>>


-----------------------------------------------------------------------------
(* Programs that are also run: the emitted text is assembled, loaded and   *)
(* executed step by step.                                                  *)

R(n) == Str(<<"R1", "R2", "R3", "R4", "R5", "R6", "R7", "R8">>[n])

(* Main bodies and function bodies around calls. *)
MainBodies ==
    { <<>>, <<Load(R(1), IntV(1))>>, <<Call("f")>>, <<Call("f"), Halt>>,
      <<Load(R(1), IntV(1)), Halt>>, <<Call("f"), Call("f")>> }
FunctionBodies ==
    { <<Return(None)>>, <<UnaryOp("INC", R(1)), Return(None)>>,
      <<UnaryOp("INC", R(1))>>, <<PrintNode(R(1)), Return(None)>> }
CallPrograms ==
    {Program(<<Function("f", fb)>> \o mb) : fb \in FunctionBodies, mb \in MainBodies}
    \cup {Program(mb \o <<Function("f", fb), Function("g", fb)>>) :
              fb \in FunctionBodies, mb \in MainBodies}

(* One statement of every kind that takes operands, with the operand kinds *)
(* the parser accepts in each place, after the declaration of x.           *)
OperandStatements ==
    {Load(R(1), s) : s \in {R(2), Str("x"), IntV(5)}}
    \cup {SetNode(Str("x"), s) : s \in {R(1), IntV(5)}}
    \cup {Move(R(1), R(2))}
    \cup {BinaryOp(op, R(1), l, r) :
            op \in {"ADD", "SUB", "MUL", "DIV", "AND", "OR", "XOR"},
            l \in {R(1), R(2)}, r \in {R(2), IntV(5)}}
    \cup {UnaryOp(op, o) : op \in {"INC", "DEC", "NOT"}, o \in {R(1), Str("x")}}
    \cup {ShiftOp(op, R(1), l, IntV(2)) : op \in {"SHL", "SHR"}, l \in {R(1), R(2)}}
    \cup {PrintNode(v) : v \in {R(1), Str("x"), IntV(5)}}
    \cup {InputNode(d) : d \in {R(1), Str("x")}}
    \cup {Function("f", <<Return(R(2))>>)}
    \cup {If(ConditionNode(l, "==", r), <<>>, None) :
            l \in {R(1), Str("x"), IntV(5)}, r \in {R(2), Str("x"), IntV(5)}}
OperandPrograms ==
    {Program(<<VarDecl("x", IntV(3)), s, Halt>>) : s \in OperandStatements}

(* Every user register loaded with a value of its own, then one PRINT or   *)
(* INPUT.                                                                  *)
LoadAll == [n \in 1..8 |-> Load(R(n), IntV(100 + n))]
HelperCalls ==
    {PrintNode(v) : v \in {R(1), R(4), Str("x"), IntV(0 - 45)}}
    \cup {InputNode(d) : d \in {R(1), R(3), R(7), Str("x")}}
HelperPrograms ==
    {Program(<<VarDecl("x", IntV(3))>> \o LoadAll \o <<io, Halt>>) : io \in HelperCalls}

(* A REPEAT loop whose body counts its runs in R1. *)
Comparisons == {"==", "!=", "<", ">", "<=", ">="}
CountingBodies ==
    {<<UnaryOp("INC", R(1))>>, <<BinaryOp("ADD", R(1), R(1), IntV(2))>>}
RepeatPrograms ==
    {Program(<<Repeat(body, ConditionNode(R(1), op, IntV(3))), Halt>>) :
        body \in CountingBodies, op \in Comparisons}

(* A FOR loop whose body counts its runs in R1. *)
ForStarts == {0 - 1, 0, 1, 2, 4}
ForEnds == {0 - 1, 1, 3}
ForSteps == {1, 2, 3}
ForPrograms ==
    {Program(<<For("i", IntV(a), IntV(b), IntV(c), <<UnaryOp("INC", R(1))>>), Halt>>) :
        a \in ForStarts, b \in ForEnds, c \in ForSteps}

(* A register saved with PUSH, overwritten, and restored with POP. *)
StackPrograms ==
    {Program(<<Load(R(a), IntV(5)), Push(R(a)), Load(R(a), IntV(7)), Pop(R(b)), Halt>>) :
        a \in {1, 2, 8}, b \in {1, 2, 8}}

(* Every user register loaded with a number, then one three-operand       *)
(* statement over every choice of registers, the right operand a register  *)
(* or a number.                                                            *)
Given == <<90, 7, 40, 6, 75, 4, 33, 9>>
Loaded == [n \in 1..8 |-> Load(R(n), IntV(Given[n]))]
Rights == {R(n) : n \in 1..8} \cup {IntV(5)}
BinaryOps == {"ADD", "SUB", "MUL", "DIV", "AND", "OR", "XOR"}
BinaryPrograms ==
    {Program(Loaded \o <<BinaryOp(op, R(d), R(l), r), Halt>>) :
        op \in BinaryOps, d \in 1..8, l \in 1..8, r \in Rights}

(* An IF over two registers loaded with every pair of values, and over     *)
(* every pair of operand kinds.                                            *)
CondValues == {0 - 200000000, 0 - 1, 0, 3, 200000000}
CondOperands == {R(1), Str("x"), IntV(0 - 1), IntV(7)}
ConditionPrograms ==
    {Program(<<VarDecl("x", IntV(3)), Load(R(1), IntV(a)), Load(R(2), IntV(b)),
               If(ConditionNode(R(1), op, R(2)), <<Nop>>, None), Halt>>) :
        a \in CondValues, b \in CondValues, op \in Comparisons}
    \cup {Program(<<VarDecl("x", IntV(3)), Load(R(1), IntV(3)),
                    If(ConditionNode(l, op, r), <<Nop>>, None), Halt>>) :
            l \in CondOperands, r \in CondOperands, op \in Comparisons}

RunPrograms ==
    CallPrograms \cup OperandPrograms \cup RepeatPrograms \cup ForPrograms
    \cup StackPrograms \cup BinaryPrograms \cup ConditionPrograms
Stdins == {Chars(""), Chars("7\n"), Chars("-12\n")}
RunInputs ==
    {Job(p, "run", Chars("7\n")) : p \in RunPrograms}
    \cup {Job(p, "run", stdin) : p \in HelperPrograms, stdin \in Stdins}

(* VAR declarations and FOR loops over one name, in every order. *)
MaxDeclarations == 3
DeclarationStatements ==
    { VarDecl("i", IntV(3)), VarDecl("i", None), VarDecl("j", IntV(1)),
      For("i", IntV(1), IntV(2), IntV(1), <<>>) }
DeclarationPrograms ==
    {Program(body \o <<Halt>>) : body \in SeqsUpTo(DeclarationStatements, MaxDeclarations)}

TreeInputs == {Job(p, "emit", <<>>) : p \in TreePrograms \cup DeclarationPrograms}

GenInit ==
    /\ input \in TreeInputs \cup RunInputs
    /\ source = <<>>
    /\ stage = "parsed"
    /\ lexer = NewLexer
    /\ parser = NewParser(<<>>)
    /\ ast = input.prog
    /\ generator = NewGenerator
    /\ exc = NoExc
    /\ asm = <<>>
    /\ cpu = PowerOff
    /\ session = NewSession(<<>>)

GenNext == Generate \/ Start \/ Step

GenSpec == GenInit /\ [][GenNext]_vars

-----------------------------------------------------------------------------
(* Properties of the running program.                                      *)

Running == Generated /\ cpu.status = "run"

(* The first instruction of each function body (every function of the     *)
(* programs that are run has one).                                         *)
FunctionEntries == {NextInstruction(asm, p) : p \in FunctionLabelAt}

(* C15: in the running program a function body is entered only by a call:  *)
(* whenever control stands at the first instruction of a function body, it *)
(* arrived there by a `call`, never by running on from the main body,      *)
(* whether or not the main body ends with HALT.                            *)
C15_FunctionsEnteredByCall ==
    (Running /\ cpu.pc \in FunctionEntries) => cpu.via.how = "call"

(* The main body `LOAD R1, 1` has run to its last instruction and control  *)
(* has gone on into the body of f, which nothing has called.               *)
C15_FellIntoFunction ==
    /\ Running
    /\ ast.statements = <<Function("f", <<UnaryOp("INC", R(1)), Return(None)>>),
                          Load(R(1), IntV(1))>>
    /\ asm[cpu.pc - 1] = "f:"
    /\ cpu.pc \in FunctionEntries
    /\ cpu.via.how = "next"
    /\ asm[cpu.via.from] = "    mov rax, 1"
    /\ cpu.stack = <<Argc>>

-----------------------------------------------------------------------------
(* Several calls of compile_tc_to_nasm in one process.                     *)

MaxCalls == 3
CompileSources ==
    { Chars("LOAD R1, 5"), Chars("PRINT R1"),
      Chars("VAR x, 3\nINPUT x\nFUNC f\nRET\nENDFUNC\nCALL f"), Chars("LOAD R1"),
      Chars("LOAD R1, 0") }
DebugValues == {Chars(""), Chars("1"), Chars("TRUE")}

Finished == stage \in {"generated", "lex_raised", "parse_raised"}

(* The call has returned or raised, and the caller calls again: the        *)
(* outcome is kept, the environment may have changed, and line 12 builds a *)
(* new Lexer.                                                              *)
CallAgain ==
    /\ input.family = "session"
    /\ Finished
    /\ Len(session.returned) + 1 < MaxCalls
    /\ \E src \in CompileSources, env \in DebugValues :
          /\ source' = src
          /\ session' = [session EXCEPT
                !.DEBUG = env,
                !.returned = Append(@, [source_code |-> source, stage |-> stage,
                                        asm_code |-> asm, exc |-> exc,
                                        DEBUG |-> session.DEBUG])]
    /\ stage' = "source"
    /\ lexer' = NewLexer
    /\ parser' = NewParser(<<>>)
    /\ ast' = None
    /\ exc' = NoExc
    /\ asm' = <<>>
    /\ UNCHANGED <<input, generator, cpu>>

CompileInit ==
    /\ input = [family |-> "session", text |-> <<>>, prog |-> <<>>, layout |-> "plain",
                drop |-> 0]
    /\ source \in CompileSources
    /\ stage = "source"
    /\ lexer = NewLexer
    /\ parser = NewParser(<<>>)
    /\ ast = None
    /\ generator = NewGenerator
    /\ exc = NoExc
    /\ asm = <<>>
    /\ cpu = PowerOff
    /\ session \in {NewSession(env) : env \in DebugValues}

CompileNext == Tokenize \/ Parse \/ Generate \/ CallAgain

CompileSpec == CompileInit /\ [][CompileNext]_vars

(* C16: compile_tc_to_nasm is deterministic: a call that returns a text    *)
(* returns the text that every earlier call with the same source returned, *)
(* whatever calls came in between and whatever DEBUG was at either call.   *)
C16_SameSourceSameText ==
    stage = "generated" =>
        \A i \in DOMAIN session.returned :
            (session.returned[i].source_code = source
                /\ session.returned[i].stage = "generated")
            => session.returned[i].asm_code = asm

(* The third call, made with diagnostics on, has returned for a source     *)
(* that the first call compiled with diagnostics off, after a call for     *)
(* another source that needed the print helper.                            *)
C16_ThirdCallReturned ==
    /\ stage = "generated"
    /\ Len(session.returned) = 2
    /\ source = Chars("LOAD R1, 5")
    /\ debug
    /\ session.stdout > 0
    /\ session.returned[1].source_code = source
    /\ session.returned[1].stage = "generated"
    /\ session.returned[1].DEBUG = Chars("")
    /\ session.returned[2].source_code = Chars("PRINT R1")
    /\ session.returned[2].stage = "generated"
    /\ asm # <<>>

-----------------------------------------------------------------------------
(* Operands in the emitted text.                                           *)

(* The operands of the statements of a body, at any depth: those of Load,  *)
(* Set, Move, BinaryOp, UnaryOp, ShiftOp, Print, Input, Return and of the  *)
(* conditions.                                                             *)
RECURSIVE OperandsIn(_)
RECURSIVE OperandsOf(_)
OperandsIn(body) ==
    IF body = <<>> THEN {} ELSE OperandsOf(body[1]) \cup OperandsIn(Tail(body))
OperandsOf(stmt) ==
    LET Of(cond) == {cond.left, cond.right}
    IN  CASE stmt.node \in {"Load", "Set", "Move"} -> {stmt.dest, stmt.src}
          [] stmt.node = "BinaryOp" -> {stmt.dest, stmt.left, stmt.right}
          [] stmt.node = "UnaryOp" -> {stmt.operand}
          [] stmt.node = "ShiftOp" -> {stmt.dest, stmt.src, stmt.count}
          [] stmt.node = "Print" -> {stmt.value}
          [] stmt.node = "Input" -> {stmt.dest}
          [] stmt.node = "Return" -> {stmt.value} \ {None}
          [] stmt.node = "If" ->
                Of(stmt.condition) \cup OperandsIn(stmt.then_body)
                \cup (IF stmt.else_body = None THEN {} ELSE OperandsIn(stmt.else_body.items))
          [] stmt.node \in {"While", "Repeat"} -> Of(stmt.condition) \cup OperandsIn(stmt.body)
          [] stmt.node \in {"For", "Loop", "Function"} -> OperandsIn(stmt.body)
          [] OTHER -> {}

(* The form the operand is to have in the text. *)
Form(v) ==
    IF IsInt(v) THEN Fmt(v)
    ELSE IF is_register(v) THEN REGISTER_MAP[Text(v.s)]
    ELSE "[" \o Fmt(v) \o "]"

(* The operand texts of the lines emitted for the statements and the       *)
(* functions, a size keyword before a memory reference left aside.         *)
Unsize(t) == IF StartsWith(t, "qword ") THEN SubSeq(t, 7, Len(t)) ELSE t
EmittedOperands ==
    UNION { {Unsize(OperandText(Code(asm[i]))[k]) : k \in DOMAIN OperandText(Code(asm[i]))} :
              i \in {j \in (MainLabelAt + 1)..(ExitAt - 1) : IsInstruction(asm[j])} }

(* C17: every operand of Load, Set, Move, BinaryOp, UnaryOp, ShiftOp,      *)
(* Print, Input, Return and Condition is in the emitted text in its form:  *)
(* a register as its physical register, an identifier as [name] and never  *)
(* as the bare name, an immediate as its decimal text.                     *)
C17_OperandForms ==
    Generated =>
        \A v \in OperandsIn(ast.statements) :
            /\ Form(v) \in EmittedOperands
            /\ (IsStr(v) /\ ~is_register(v)) => Fmt(v) \notin EmittedOperands

(* `INC x` has been generated as `inc x`, and the assembler has refused    *)
(* the text.                                                               *)
C17_BareIdentifier ==
    /\ Generated
    /\ ast.statements = <<VarDecl("x", IntV(3)), UnaryOp("INC", Str("x")), Halt>>
    /\ asm[MainLabelAt + 1] = "    inc x"
    /\ "x" \in EmittedOperands
    /\ "[x]" \notin EmittedOperands
    /\ cpu.status = "rejected"

-----------------------------------------------------------------------------
(* The runtime helpers and the user's registers.                           *)

(* The first PRINT or INPUT of the main body, when only declarations and   *)
(* loads of numbers stand before it (0 when there is none).                *)
HelperCallAt ==
    LET io == {k \in DOMAIN ast.statements : ast.statements[k].node \in {"Print", "Input"}}
        Plain(k) == \A j \in 1..(k - 1) :
                        \/ ast.statements[j].node = "VarDecl"
                        \/ ast.statements[j].node = "Load" /\ IsInt(ast.statements[j].src)
    IN  IF io # {} /\ Plain(First(io)) THEN First(io) ELSE 0

(* The number the main body loads into a register before the helper call:  *)
(* the value the register has when the call is made (0 without a load).    *)
ValueBefore(reg) ==
    LET loads == {j \in 1..(HelperCallAt - 1) :
                    /\ ast.statements[j].node = "Load"
                    /\ ast.statements[j].dest = reg}
    IN  IF loads = {} THEN 0 ELSE ast.statements[Last(loads)].src.n

(* Control stands at the first instruction after the code of that call. *)
HelperCallDone ==
    /\ Running
    /\ HelperCallAt # 0
    /\ cpu.pc = NextInstruction(asm,
                    MainLabelAt + LinesIn(SubSeq(ast.statements, 1, HelperCallAt)) + 1)

(* C18: after the code of `PRINT v`, and after the code of `INPUT d`       *)
(* (the call of read_int and the store into d), every register mapped from *)
(* R1..R8, other than d, holds the value it had before.                    *)
C18_HelpersPreserveRegisters ==
    HelperCallDone =>
        \A n \in 1..8 :
            (ast.statements[HelperCallAt].node = "Input" => ast.statements[HelperCallAt].dest # R(n))
            => cpu.regs[get_register(R(n))] = ValueBefore(R(n))

(* `INPUT R7` has read 7: R7 holds it, R2 and R8 hold what they held, and  *)
(* R1, R3, R4, R5 and R6 hold what read_int and the kernel left in them.   *)
C18_InputClobbered ==
    /\ HelperCallDone
    /\ ast.statements[HelperCallAt] = InputNode(R(7))
    /\ cpu.regs["r8"] = 7
    /\ cpu.regs["rbx"] = 102
    /\ cpu.regs["r9"] = 108
    /\ cpu.regs["rax"] = 2
    /\ cpu.regs["rcx"] > TextBase
    /\ cpu.regs["rdx"] = INPUT_BUFFER_SIZE
    /\ cpu.regs["rsi"] = AddressOf(asm, cpu.symbols, "input_buffer")
    /\ cpu.regs["rdi"] = STDIN

-----------------------------------------------------------------------------
(* Loops in the running program.                                           *)

(* What an operand of the program is worth in the machine. *)
Worth(v) ==
    IF IsInt(v) THEN v.n
    ELSE IF is_register(v) THEN cpu.regs[get_register(v)]
    ELSE cpu.mem[AddressOf(asm, cpu.symbols, Fmt(v))].v

Compare(a, op, b) ==
    CASE op = "==" -> a = b
      [] op = "!=" -> a # b
      [] op = "<" -> a < b
      [] op = ">" -> a > b
      [] op = "<=" -> a <= b
      [] OTHER -> a >= b
True(cond) == Compare(Worth(cond.left), Fmt(cond.op), Worth(cond.right))

(* A main body that begins with a REPEAT: its label, the first line of its *)
(* condition and its conditional jump.                                     *)
RepeatFirst == Running /\ ast.statements # <<>> /\ ast.statements[1].node = "Repeat"
RepeatStartAt == MainLabelAt + 1
RepeatConditionAt == RepeatStartAt + LinesIn(ast.statements[1].body) + 1
RepeatJumpAt == RepeatConditionAt + 3

(* C19: in the code of REPEAT body UNTIL cond the body has run before the  *)
(* condition is evaluated, and after the conditional jump control is back  *)
(* at repeat_start_N exactly when cond holds, and past the loop when cond   *)
(* is false.                                                               *)
C19_RepeatContinuesWhileTrue ==
    RepeatFirst =>
        /\ cpu.pc = RepeatConditionAt => cpu.regs["rax"] >= 1
        /\ cpu.via.from = RepeatJumpAt =>
              IF True(ast.statements[1].condition)
              THEN cpu.via.how = "jump" /\ cpu.pc = NextInstruction(asm, RepeatStartAt)
              ELSE cpu.via.how = "next" /\ cpu.pc = NextInstruction(asm, RepeatJumpAt + 1)

(* REPEAT INC R1 UNTIL R1 >= 3: the body has run once, R1 >= 3 is false,   *)
(* and control is back at repeat_start_0.                                  *)
C19_BackWhileFalse ==
    /\ RepeatFirst
    /\ ast.statements[1] = Repeat(<<UnaryOp("INC", R(1))>>, ConditionNode(R(1), ">=", IntV(3)))
    /\ asm[RepeatStartAt] = "repeat_start_0:"
    /\ asm[RepeatJumpAt] = "    jl repeat_start_0"
    /\ cpu.via = [how |-> "jump", from |-> RepeatJumpAt]
    /\ cpu.pc = NextInstruction(asm, RepeatStartAt)
    /\ cpu.regs["rax"] = 1


(* A main body that begins with a FOR: the loop, its variable's cell, the  *)
(* first line of its body, and the line of its end label.                  *)
ForFirst == Running /\ ast.statements # <<>> /\ ast.statements[1].node = "For"
ForLoop == ast.statements[1]
ForVar == cpu.mem[AddressOf(asm, cpu.symbols, Fmt(ForLoop.var))].v
ForBodyAt == MainLabelAt + 7
ForEndAt == ForBodyAt + LinesIn(ForLoop.body) + 2

(* How often the body is to run. *)
ForRuns ==
    IF ForLoop.start.n > ForLoop.end.n THEN 0
    ELSE (ForLoop.end.n - ForLoop.start.n) \div ForLoop.step.n + 1

(* The steps of a run with that many rounds: the jump to main_code and the *)
(* store of start, each round's test, body and increment, the last test,   *)
(* and the code of HALT.                                                   *)
ForStepsAtMost == 2 + ForRuns * (4 + LinesIn(ForLoop.body) + 2) + 4 + 3

(* C20: in the code of FOR var FROM start TO end STEP step, step >= 1, the *)
(* body runs for var = start, start + step, ... while var <= end, end      *)
(* included: max(0, floor((end - start) / step) + 1) times, never when     *)
(* start > end; then the loop ends, var holding the first of these values  *)
(* greater than end.                                                       *)
C20_ForRunsInclusive ==
    ForFirst =>
        /\ cpu.pc = ForBodyAt =>
              /\ ForVar = ForLoop.start.n + cpu.regs["rax"] * ForLoop.step.n
              /\ ForVar <= ForLoop.end.n
              /\ cpu.regs["rax"] < ForRuns
        /\ cpu.pc = NextInstruction(asm, ForEndAt) =>
              /\ cpu.regs["rax"] = ForRuns
              /\ ForVar = ForLoop.start.n + ForRuns * ForLoop.step.n
              /\ ForVar > ForLoop.end.n
              /\ ForVar - ForLoop.step.n <= ForLoop.end.n \/ ForRuns = 0
        /\ cpu.steps <= ForStepsAtMost

(* FOR i FROM 1 TO 3 STEP 2 has run its body for i = 1 and i = 3 and has   *)
(* ended with i = 5.                                                       *)
C20_ForEndedPastEnd ==
    /\ ForFirst
    /\ ForLoop = For("i", IntV(1), IntV(3), IntV(2), <<UnaryOp("INC", R(1))>>)
    /\ asm[ForEndAt] = "for_end_0:"
    /\ cpu.pc = NextInstruction(asm, ForEndAt)
    /\ cpu.via.how = "jump"
    /\ cpu.regs["rax"] = 2
    /\ ForVar = 5

-----------------------------------------------------------------------------
(* PUSH and POP.                                                           *)

(* The lines a statement is to have in the text when PUSH and POP are      *)
(* emitted as one instruction each, and where the lines of the k-th        *)
(* statement of the main body then begin.                                  *)
RECURSIVE LinesDue(_)
LinesDue(body) ==
    IF body = <<>> THEN 0
    ELSE (IF body[1].node \in {"Push", "Pop"} THEN 1 ELSE LinesOf(body[1]))
         + LinesDue(Tail(body))
PlaceOf(k) == MainLabelAt + LinesDue(SubSeq(ast.statements, 1, k - 1)) + 1

(* C21: for every Push(reg) and Pop(reg) of the main body the text has     *)
(* `push <physical reg>` or `pop <physical reg>` at the node's place in    *)
(* statement order.                                                        *)
C21_PushPopEmitted ==
    Generated =>
        \A k \in DOMAIN ast.statements :
            LET stmt == ast.statements[k]
            IN  stmt.node \in {"Push", "Pop"} =>
                    /\ PlaceOf(k) \in DOMAIN asm
                    /\ asm[PlaceOf(k)] =
                          (IF stmt.node = "Push" THEN "    push " ELSE "    pop ")
                          \o get_register(stmt.register)

(* LOAD R1, 5 / PUSH R1 / LOAD R1, 7 / POP R2 / HALT has run to its exit:  *)
(* the text has neither a push nor a pop, the second load follows the      *)
(* first, and R2 (rbx) was never given the 5 that was to be saved.         *)
C21_PushPopDropped ==
    /\ Generated
    /\ ast.statements = <<Load(R(1), IntV(5)), Push(R(1)), Load(R(1), IntV(7)), Pop(R(2)), Halt>>
    /\ asm[MainLabelAt + 1] = "    mov rax, 5"
    /\ asm[MainLabelAt + 2] = "    mov rax, 7"
    /\ \A i \in DOMAIN asm : Mnemonic(Code(asm[i])) \notin {"push", "pop"}
    /\ cpu.status = "exit"
    /\ cpu.regs["rbx"] = 0
    /\ cpu.stack = <<Argc>>

-----------------------------------------------------------------------------
(* The entry operation of a stage called a second time on the same object. *)

(* lexer.tokenize() again: self.pos is at the end of the source, so the    *)
(* loop is skipped and one more EOF token is appended to self.tokens.      *)
TokenizeAgain ==
    /\ stage = "lexed"
    /\ LET Returned(r) ==
               /\ r.exc = ""
               /\ lexer' = r.lx
       IN  Returned(tokenize(source, lexer))
    /\ stage' = "lexed_twice"
    /\ UNCHANGED <<input, source, parser, ast, generator, exc, asm, cpu, session>>

(* parser.parse() again: self.pos is where the first call left it. *)
ParseAgain ==
    /\ stage = "parsed"
    /\ LET Returned(r) ==
               /\ r.ok
               /\ parser' = [parser EXCEPT !.pos = r.pos]
               /\ ast' = r.node
       IN  Returned(parse(parser.tokens, parser.pos))
    /\ stage' = "parsed_twice"
    /\ UNCHANGED <<input, source, lexer, generator, exc, asm, cpu, session>>

(* generator.generate(ast) again: the sections, the counter and the flags  *)
(* are those the first call left.                                          *)
GenerateAgain ==
    /\ stage = "generated"
    /\ LET Returned(r) ==
               /\ generator' = r.g
               /\ asm' = r.out
       IN  Returned(generate(generator, ast))
    /\ stage' = "generated_twice"
    /\ UNCHANGED <<input, source, lexer, parser, ast, exc, cpu, session>>

StageNext ==
    Tokenize \/ Parse \/ Generate \/ TokenizeAgain \/ ParseAgain \/ GenerateAgain

StageSpec == Init /\ [][StageNext]_vars

(* C22: a stage holds no state across invocations: the second call of      *)
(* Lexer.tokenize, Parser.parse or NasmGenerator.generate on the same      *)
(* object, with the same input, returns a result equal to the first one.   *)
C22_SecondCallSameResult ==
    [][/\ stage' = "lexed_twice" => lexer'.tokens = lexer.tokens
       /\ stage' = "parsed_twice" => ast' = ast
       /\ stage' = "generated_twice" => asm' = asm]_vars

(* The parser of a source with a statement was called twice: its cursor    *)
(* had stayed at EOF, and the second call returned the empty Program.      *)
C22_SecondParseEmpty ==
    /\ stage = "parsed_twice"
    /\ \E i \in DOMAIN parser.tokens : parser.tokens[i].type \notin {"EOF", "NEWLINE"}
    /\ parser.pos > 0
    /\ ast = [node |-> "Program", statements |-> <<>>]

-----------------------------------------------------------------------------
(* The three-operand statements, run.                                      *)

(* The first statement of a kind in the main body, when only declarations  *)
(* and loads of numbers stand before it (0 when there is none).            *)
FirstPlain(kind) ==
    LET found == {k \in DOMAIN ast.statements : ast.statements[k].node = kind}
        Plain(k) == \A j \in 1..(k - 1) :
                        \/ ast.statements[j].node = "VarDecl"
                        \/ ast.statements[j].node = "Load" /\ IsInt(ast.statements[j].src)
    IN  IF found # {} /\ Plain(First(found)) THEN First(found) ELSE 0
BinaryOpAt == FirstPlain("BinaryOp")
TheBinaryOp == ast.statements[BinaryOpAt]

(* The value of a physical register when control reaches statement k:      *)
(* the last number loaded into it, 0 for a register never loaded.          *)
HeldAt(k, physical) ==
    LET loads == {j \in 1..(k - 1) :
                    /\ ast.statements[j].node = "Load"
                    /\ get_register(ast.statements[j].dest) = physical}
    IN  IF loads = {} THEN 0 ELSE ast.statements[Last(loads)].src.n
HeldBefore(physical) == HeldAt(BinaryOpAt, physical)

(* Control stands at the first instruction after the code of the           *)
(* statement.                                                              *)
BinaryOpDone ==
    /\ Running
    /\ BinaryOpAt # 0
    /\ cpu.pc = NextInstruction(asm,
                    MainLabelAt + LinesIn(SubSeq(ast.statements, 1, BinaryOpAt)) + 1)

(* C23: the code of `DIV dest, left, right`, when it completes, leaves     *)
(* every physical register other than dest (rax, rdx and r10 among them)   *)
(* and the stack pointer as they were before it.                           *)
C23_DivPreservesOthers ==
    (BinaryOpDone /\ StrEq(TheBinaryOp.op, "DIV")) =>
        /\ \A reg \in DOMAIN cpu.regs :
              reg # get_register(TheBinaryOp.dest) => cpu.regs[reg] = HeldBefore(reg)
        /\ cpu.stack = <<Argc>>

(* `DIV R3, R5, 5` has completed with R1 = 90, R4 = 6 and r10 = 0 as       *)
(* before and the quotient 15 in R3.                                       *)
C23_DivCompleted ==
    /\ BinaryOpDone
    /\ TheBinaryOp = BinaryOp("DIV", R(3), R(5), IntV(5))
    /\ cpu.regs["rcx"] = 15
    /\ cpu.regs["rax"] = 90
    /\ cpu.regs["rdx"] = 6
    /\ cpu.regs["r10"] = 0
    /\ cpu.stack = <<Argc>>

-----------------------------------------------------------------------------
(* Conditions, run.                                                        *)

(* The first IF of the main body after declarations and loads: the first   *)
(* line of its condition and its conditional jump.                         *)
IfAt == FirstPlain("If")
TheCondition == ast.statements[IfAt].condition
ConditionAt == MainLabelAt + LinesIn(SubSeq(ast.statements, 1, IfAt - 1)) + 1
ConditionJumpAt == ConditionAt + 3
ConditionDone == Running /\ IfAt # 0 /\ cpu.via.from = ConditionJumpAt
FalseLabelAt == CHOOSE i \in DOMAIN asm : asm[i] = "else_0:"

(* C24: after the code of a condition control is at the false label        *)
(* exactly when the comparison of the two signed values is false and has   *)
(* fallen through exactly when it is true; registers other than r10 and    *)
(* r11, the variables and the stack are as before.                         *)
C24_ConditionJumpsWhenFalse ==
    ConditionDone =>
        /\ IF True(TheCondition)
           THEN cpu.via.how = "next" /\ cpu.pc = NextInstruction(asm, ConditionJumpAt + 1)
           ELSE cpu.via.how = "jump" /\ cpu.pc = NextInstruction(asm, FalseLabelAt)
        /\ \A reg \in DOMAIN cpu.regs \ {"r10", "r11"} : cpu.regs[reg] = HeldAt(IfAt, reg)
        /\ cpu.regs["r10"] = Worth(TheCondition.left)
        /\ cpu.regs["r11"] = Worth(TheCondition.right)
        /\ cpu.mem = InitialMemory(cpu.symbols)
        /\ cpu.stack = <<Argc>>

(* IF R1 >= R2 with R1 = -1 and R2 = -200000000 has fallen through into    *)
(* the body.                                                               *)
C24_SignedComparisonDone ==
    /\ ConditionDone
    /\ TheCondition = ConditionNode(R(1), ">=", R(2))
    /\ HeldAt(IfAt, "rax") = 0 - 1
    /\ HeldAt(IfAt, "rbx") = 0 - 200000000
    /\ cpu.via.how = "next"
    /\ cpu.regs["r10"] = 0 - 1
    /\ cpu.regs["r11"] = 0 - 200000000


(* The value of the right operand (a register or a number) before the      *)
(* statement, and the value a non-DIV operation is to produce.             *)
RightBefore ==
    IF IsInt(TheBinaryOp.right) THEN TheBinaryOp.right.n
    ELSE HeldBefore(get_register(TheBinaryOp.right))
Applied(op, a, b) ==
    CASE op = "ADD" -> a + b
      [] op = "SUB" -> a - b
      [] op = "MUL" -> a * b
      [] op = "AND" -> Bitwise("and", a, b)
      [] op = "OR" -> Bitwise("or", a, b)
      [] OTHER -> Bitwise("xor", a, b)

(* C25: after the code of a non-DIV BinaryOp over registers (the right     *)
(* operand a register or a number), dest holds (left before) op (right     *)
(* before), also when dest is the right operand and not the left one.      *)
C25_BinaryOpResult ==
    (/\ BinaryOpDone
     /\ ~StrEq(TheBinaryOp.op, "DIV")
     /\ is_register(TheBinaryOp.right) \/ IsInt(TheBinaryOp.right)) =>
        cpu.regs[get_register(TheBinaryOp.dest)] =
            Applied(Fmt(TheBinaryOp.op), HeldBefore(get_register(TheBinaryOp.left)),
                    RightBefore)

(* `SUB R2, R1, R2` with R1 = 90 and R2 = 7 has completed: R2 holds 0, the *)
(* difference of R1 with itself, and not 83.                               *)
C25_RightOverwritten ==
    /\ BinaryOpDone
    /\ TheBinaryOp = BinaryOp("SUB", R(2), R(1), R(2))
    /\ HeldBefore("rax") = 90
    /\ HeldBefore("rbx") = 7
    /\ cpu.regs["rbx"] = 0


(* C26: `DIV dest, left, right` over registers with a non-zero value in    *)
(* right does not fault, and after its code dest holds the unsigned        *)
(* quotient floor(left / right) of the values before the statement, also   *)
(* for right = R1 (rax) with left # R1 and for right = R4 (rdx).           *)
C26_DivQuotient ==
    (/\ Generated
     /\ cpu # PowerOff
     /\ BinaryOpAt # 0
     /\ StrEq(TheBinaryOp.op, "DIV")
     /\ is_register(TheBinaryOp.right)
     /\ RightBefore # 0) =>
        /\ cpu.status # "fault"
        /\ BinaryOpDone =>
              cpu.regs[get_register(TheBinaryOp.dest)] =
                  HeldBefore(get_register(TheBinaryOp.left)) \div RightBefore

(* `DIV R2, R3, R1` with R3 = 40 and R1 = 90 has completed: R2 holds 1,    *)
(* the quotient of R3 by itself, and not 0.                                *)
C26_DivisorOverwritten ==
    /\ BinaryOpDone
    /\ TheBinaryOp = BinaryOp("DIV", R(2), R(3), R(1))
    /\ HeldBefore("rcx") = 40
    /\ HeldBefore("rax") = 90
    /\ cpu.regs["rbx"] = 1

-----------------------------------------------------------------------------
(* print_int on the whole signed 64-bit range.  The values of 19 digits    *)
(* are beyond the numbers of the machine above, so here the routine is     *)
(* followed block by block with r10 held as the decimal digits of its      *)
(* unsigned value (most significant first): `div r11` with r11 = 10 takes  *)
(* the last digit off as the remainder.  Memory is addressed by the offset *)
(* from digit_buffer; _add_io_buffers places `newline db 10` immediately   *)
(* before digit_buffer, at offset -1.                                      *)

NewlineAt == 0 - 1
PrintCells == {NewlineAt} \cup 0..(DIGIT_BUFFER_SIZE - 1)

(* 2^63, the unsigned value of the smallest number and of its negation. *)
TopDigits == <<9, 2, 2, 3, 3, 7, 2, 0, 3, 6, 8, 5, 4, 7, 7, 5, 8, 0, 8>>
PowerOfTen(k) == <<1>> \o [i \in 1..(k - 1) |-> 0]
Signed(neg, digits) == [neg |-> neg, digits |-> digits]
PrintValues ==
    {Signed(FALSE, <<0>>)}
    \cup {Signed(neg, SubSeq(TopDigits, 1, k)) :
            neg \in BOOLEAN, k \in 1..(Len(TopDigits) - 1)}
    \cup {Signed(neg, PowerOfTen(k)) : neg \in BOOLEAN, k \in 1..Len(TopDigits)}
    \cup {Signed(neg, [TopDigits EXCEPT ![Len(TopDigits)] = 7]) : neg \in BOOLEAN}
    \cup {Signed(TRUE, TopDigits)}

(* The decimal form of a value, as the bytes of its text. *)
Decimal(v) ==
    (IF v.neg THEN <<CharCode("-")>> ELSE <<>>)
    \o [i \in DOMAIN v.digits |-> CharCode("0") + v.digits[i]]

PrintInit ==
    /\ input \in {[family |-> "print", value |-> v] : v \in PrintValues}
    /\ source = <<>>
    /\ stage = "generated"
    /\ lexer = NewLexer
    /\ parser = NewParser(<<>>)
    /\ ast = None
    /\ generator = NewGenerator
    /\ exc = NoExc
    /\ asm = print_int_lines
    /\ cpu = [at |-> "print_int", r10 |-> <<>>, r12 |-> 0, r13 |-> 0,
              mem |-> [o \in PrintCells |-> IF o = NewlineAt THEN 10 ELSE 0],
              stored |-> {}, out |-> <<>>]
    /\ session = NewSession(<<>>)

(* mov byte/[r12], v: the store, with the offset it went to. *)
Store(c, v) == [c EXCEPT !.mem[c.r12] = v, !.stored = @ \cup {c.r12}, !.r12 = @ - 1]

(* print_int up to .positive: r10 = r15, r12 at the last byte of the       *)
(* buffer, the NUL stored there, r13 the sign flag, r10 negated when the   *)
(* sign bit is set (its unsigned value is then the magnitude).             *)
Convert ==
    /\ cpu.at = "print_int"
    /\ cpu' = [Store([cpu EXCEPT !.r12 = DIGIT_BUFFER_SIZE - 1], 0) EXCEPT
                 !.r10 = input.value.digits,
                 !.r13 = IF input.value.neg THEN 1 ELSE 0,
                 !.at = ".positive"]
    /\ UNCHANGED <<input, source, stage, lexer, parser, ast, generator, exc, asm, session>>

(* One round of .positive: the quotient back in r10, the remainder stored  *)
(* as a digit, and again while r10 is not zero.                            *)
Digit ==
    /\ cpu.at = ".positive"
    /\ LET n == Len(cpu.r10)
           quotient == SubSeq(cpu.r10, 1, n - 1)
       IN  cpu' = [Store(cpu, CharCode("0") + cpu.r10[n]) EXCEPT
                     !.r10 = quotient,
                     !.at = IF quotient # <<>> THEN ".positive" ELSE "sign"]
    /\ UNCHANGED <<input, source, stage, lexer, parser, ast, generator, exc, asm, session>>

(* test r13, r13 / jz .print / mov byte [r12], '-' / dec r12 *)
Sign ==
    /\ cpu.at = "sign"
    /\ cpu' = [(IF cpu.r13 # 0 THEN Store(cpu, CharCode("-")) ELSE cpu) EXCEPT
                 !.at = ".print"]
    /\ UNCHANGED <<input, source, stage, lexer, parser, ast, generator, exc, asm, session>>

(* .print: the bytes from r12 + 1 up to the NUL are written. *)
WriteDigits ==
    /\ cpu.at = ".print"
    /\ LET start == cpu.r12 + 1
           rdx == (DIGIT_BUFFER_SIZE - 1) - start
       IN  cpu' = [cpu EXCEPT !.r12 = start,
                              !.out = @ \o [i \in 1..rdx |-> cpu.mem[start + i - 1]],
                              !.at = "newline"]
    /\ UNCHANGED <<input, source, stage, lexer, parser, ast, generator, exc, asm, session>>

(* The byte at newline is written, then the registers are restored. *)
WriteNewline ==
    /\ cpu.at = "newline"
    /\ cpu' = [cpu EXCEPT !.out = Append(@, cpu.mem[NewlineAt]), !.at = "ret"]
    /\ UNCHANGED <<input, source, stage, lexer, parser, ast, generator, exc, asm, session>>

PrintNext == Convert \/ Digit \/ Sign \/ WriteDigits \/ WriteNewline

PrintSpec == PrintInit /\ [][PrintNext]_vars

(* C27: for every signed 64-bit value in r15 every byte print_int stores   *)
(* lies inside digit_buffer (offsets 0..19), the newline byte is never     *)
(* overwritten, and the text written is the decimal form and one newline.  *)
C27_PrintIntStaysInBuffer ==
    /\ cpu.stored \subseteq 0..(DIGIT_BUFFER_SIZE - 1)
    /\ cpu.mem[NewlineAt] = 10
    /\ cpu.at = "ret" => cpu.out = Append(Decimal(input.value), 10)

(* -1000000000000000000 has been printed: the minus sign went to offset    *)
(* -1, over the newline byte, and the text written ends in `-`, not in a   *)
(* newline.                                                                *)
C27_MinusOverNewline ==
    /\ cpu.at = "ret"
    /\ input.value = Signed(TRUE, PowerOfTen(19))
    /\ NewlineAt \in cpu.stored
    /\ cpu.mem[NewlineAt] = CharCode("-")
    /\ Len(cpu.out) = 21
    /\ cpu.out[1] = CharCode("-")
    /\ cpu.out[21] = CharCode("-")

-----------------------------------------------------------------------------
(* Sources without a statement.                                            *)

Blank == input.family = "blank"

(* C28: a source of only spaces, newlines and `;` comments, in any         *)
(* arrangement, and the empty string, lex and parse without error to a     *)
(* Program with an empty statement list.                                   *)
C28_BlankSourceParsesEmpty ==
    Blank =>
        /\ stage \notin {"lex_raised", "parse_raised"}
        /\ stage \in {"parsed", "generated"} =>
              ast = [node |-> "Program", statements |-> <<>>]

(* The source of one newline has been lexed to NEWLINE, EOF, and the       *)
(* parser has raised SyntaxError at the EOF token on line 2.               *)
C28_NewlineRaised ==
    /\ Blank
    /\ source = <<"\n">>
    /\ Len(lexer.tokens) = 2
    /\ lexer.tokens[1].type = "NEWLINE"
    /\ lexer.tokens[2].type = "EOF"
    /\ stage = "parse_raised"
    /\ exc = [kind |-> "SyntaxError", line |-> 2]

-----------------------------------------------------------------------------
(* Variables defined in .data and .bss.                                    *)

(* The names the VAR declarations of a body declare, nested ones too, one  *)
(* entry for each declaration.                                             *)
RECURSIVE VarDeclsIn(_)
RECURSIVE VarDeclsOf(_)
VarDeclsIn(body) ==
    IF body = <<>> THEN <<>> ELSE VarDeclsOf(body[1]) \o VarDeclsIn(Tail(body))
VarDeclsOf(stmt) ==
    CASE stmt.node = "VarDecl" -> <<Fmt(stmt.name)>>
      [] stmt.node = "If" ->
            VarDeclsIn(stmt.then_body)
            \o (IF stmt.else_body = None THEN <<>> ELSE VarDeclsIn(stmt.else_body.items))
      [] stmt.node \in {"While", "Repeat", "For", "Loop", "Function"} -> VarDeclsIn(stmt.body)
      [] OTHER -> <<>>
Distinct(names) == \A i, j \in DOMAIN names : names[i] = names[j] => i = j

(* The names the lines of .data and .bss define, one entry for each line. *)
DefinedNames == [k \in DOMAIN Symbols(asm) |-> Symbols(asm)[k].name]

(* C29: when each variable name occurs in at most one VarDecl, .data and   *)
(* .bss together define each name at most once, in every order of VAR      *)
(* declarations and FOR loops over the same name.                          *)
C29_VariablesDefinedOnce ==
    (Generated /\ Distinct(VarDeclsIn(ast.statements))) => Distinct(DefinedNames)

(* FOR i ... ENDFOR before VAR i, 3: the text has `i dq 3` in .data and    *)
(* `i resq 1` in .bss.                                                     *)
C29_ForThenVarDefinedTwice ==
    /\ Generated
    /\ ast.statements = <<For("i", IntV(1), IntV(2), IntV(1), <<>>), VarDecl("i", IntV(3)), Halt>>
    /\ asm[2] = "    i dq 3"
    /\ asm[5] = "    i resq 1"
    /\ DefinedNames = <<"i", "i">>

-----------------------------------------------------------------------------
(* Parser.parse, one loop iteration at a time.  The loops that are open    *)
(* (the top-level loop of parse and the body loop of every block being     *)
(* parsed) are the frames; the innermost is the last.  A step is one test  *)
(* of the innermost loop's condition, followed either by parse_statement   *)
(* up to the header of a block (whose body loop is then entered) or to the *)
(* end of a statement without a body, or by what follows the loop when the *)
(* test ends it.                                                           *)

Openers == {"FUNC", "LOOP", "WHILE", "FOR", "REPEAT", "IF"}
Frame(kind, terminators, head) ==
    [kind |-> kind, terminators |-> terminators, head |-> head, body |-> <<>>]
Opened(pos, frame) == [ok |-> TRUE, pos |-> pos, line |-> 0, frame |-> frame]
NotOpened(pos, line) == [ok |-> FALSE, pos |-> pos, line |-> line, frame |-> <<>>]

(* parse_function, parse_loop, parse_while, parse_for, parse_repeat and    *)
(* parse_if up to their body loop: the header, then skip_newlines().       *)
open_block(tokens, pos) ==
    LET type == current_token(tokens, pos).type
        Enter(p, kind, terminators, head) ==
            Opened(skip_newlines(tokens, p), Frame(kind, terminators, head))
        OfSeq(r, kind, closing, head) ==
            IF ~r.ok THEN NotOpened(r.pos, r.line) ELSE Enter(r.pos, kind, {closing}, head)
        OfCond(w, kind, terminators) ==
            IF ~w.ok THEN NotOpened(w.pos, w.line)
            ELSE LET c == parse_condition(tokens, w.pos)
                 IN  IF ~c.ok THEN NotOpened(c.pos, c.line)
                     ELSE Enter(c.pos, kind, terminators, [condition |-> c.node])
        OfFor(r) ==
            IF ~r.ok THEN NotOpened(r.pos, r.line)
            ELSE IF current_token(tokens, r.pos).type = "STEP"
            THEN LET st == expect(tokens, r.pos + 1, "NUMBER")
                 IN  IF ~st.ok THEN NotOpened(st.pos, st.line)
                     ELSE Enter(st.pos, "For", {"ENDFOR"},
                                [var |-> r.vals[2], start |-> r.vals[4],
                                 end |-> r.vals[6], step |-> st.token.value])
            ELSE Enter(r.pos, "For", {"ENDFOR"},
                       [var |-> r.vals[2], start |-> r.vals[4], end |-> r.vals[6],
                        step |-> IntV(1)])
        OfFunc(r) ==
            OfSeq(r, "Function", "ENDFUNC", IF r.ok THEN [name |-> r.vals[2]] ELSE <<>>)
        OfLoop(r) ==
            OfSeq(r, "Loop", "ENDLOOP",
                  IF r.ok THEN [var |-> r.vals[2], limit |-> r.vals[4]] ELSE <<>>)
    IN  CASE type = "FUNC" ->
                OfFunc(expect_seq(tokens, pos, <<{"FUNC"}, {"IDENTIFIER"}>>, <<>>))
          [] type = "LOOP" ->
                OfLoop(expect_seq(tokens, pos, <<{"LOOP"}, {"IDENTIFIER"}, {"COMMA"},
                                                 {"NUMBER"}>>, <<>>))
          [] type = "WHILE" -> OfCond(expect(tokens, pos, "WHILE"), "While", {"ENDWHILE"})
          [] type = "FOR" ->
                OfFor(expect_seq(tokens, pos, <<{"FOR"}, {"IDENTIFIER"}, {"FROM"},
                                                {"NUMBER"}, {"TO"}, {"NUMBER"}>>, <<>>))
          [] type = "REPEAT" -> OfSeq(expect(tokens, pos, "REPEAT") @@ [vals |-> <<>>],
                                      "Repeat", "UNTIL", <<>>)
          [] OTHER -> OfCond(expect(tokens, pos, "IF"), "If", {"ELSE", "ENDIF"})

(* close_block had expect(closing keyword) not advanced the cursor. *)
close_block_keeping_cursor(tokens, pos, frame, condition) ==
    LET Closed(node) ==
            [ok |-> TRUE, pos |-> pos, line |-> 0, node |-> node, frame |-> frame]
        Until(c) ==
            IF ~c.ok THEN [ok |-> FALSE, pos |-> c.pos, line |-> c.line, node |-> None,
                           frame |-> frame]
            ELSE [ok |-> TRUE, pos |-> c.pos, line |-> 0,
                  node |-> [node |-> "Repeat", body |-> frame.body, condition |-> c.node],
                  frame |-> frame]
    IN  CASE frame.kind = "Function" ->
                Closed([node |-> "Function", name |-> frame.head.name, body |-> frame.body])
          [] frame.kind = "Loop" ->
                Closed([node |-> "Loop", var |-> frame.head.var,
                        limit |-> frame.head.limit, body |-> frame.body])
          [] frame.kind = "While" ->
                Closed([node |-> "While", condition |-> frame.head.condition,
                        body |-> frame.body])
          [] frame.kind = "For" ->
                Closed([node |-> "For", var |-> frame.head.var, start |-> frame.head.start,
                        end |-> frame.head.end, step |-> frame.head.step,
                        body |-> frame.body])
          [] frame.kind = "Repeat" -> Until(condition)
          [] frame.kind = "If" /\ current_token(tokens, pos).type = "ELSE" ->
                [ok |-> TRUE, pos |-> skip_newlines(tokens, pos + 1), line |-> 0,
                 node |-> None,
                 frame |-> Frame("Else", {"ENDIF"},
                                 [condition |-> frame.head.condition,
                                  then_body |-> frame.body])]
          [] frame.kind = "If" ->
                Closed([node |-> "If", condition |-> frame.head.condition,
                        then_body |-> frame.body, else_body |-> None])
          [] OTHER ->
                Closed([node |-> "If", condition |-> frame.head.condition,
                        then_body |-> frame.head.then_body,
                        else_body |-> [k |-> "list", items |-> frame.body]])

(* What follows the body loop of a block when the current token ends it:   *)
(* expect(closing keyword) and the node, the condition after UNTIL (given  *)
(* as parse_condition returns it), or after ELSE the second loop of        *)
(* parse_if (node None, the frame replaced).                               *)
close_block(tokens, pos, frame, condition) ==
    LET Closed(node) ==
            [ok |-> TRUE, pos |-> pos + 1, line |-> 0, node |-> node, frame |-> frame]
        Until(c) ==
            IF ~c.ok THEN [ok |-> FALSE, pos |-> c.pos, line |-> c.line, node |-> None,
                           frame |-> frame]
            ELSE [ok |-> TRUE, pos |-> c.pos, line |-> 0,
                  node |-> [node |-> "Repeat", body |-> frame.body, condition |-> c.node],
                  frame |-> frame]
    IN  CASE frame.kind = "Function" ->
                Closed([node |-> "Function", name |-> frame.head.name, body |-> frame.body])
          [] frame.kind = "Loop" ->
                Closed([node |-> "Loop", var |-> frame.head.var,
                        limit |-> frame.head.limit, body |-> frame.body])
          [] frame.kind = "While" ->
                Closed([node |-> "While", condition |-> frame.head.condition,
                        body |-> frame.body])
          [] frame.kind = "For" ->
                Closed([node |-> "For", var |-> frame.head.var, start |-> frame.head.start,
                        end |-> frame.head.end, step |-> frame.head.step,
                        body |-> frame.body])
          [] frame.kind = "Repeat" -> Until(condition)
          [] frame.kind = "If" /\ current_token(tokens, pos).type = "ELSE" ->
                [ok |-> TRUE, pos |-> skip_newlines(tokens, pos + 1), line |-> 0,
                 node |-> None,
                 frame |-> Frame("Else", {"ENDIF"},
                                 [condition |-> frame.head.condition,
                                  then_body |-> frame.body])]
          [] frame.kind = "If" ->
                Closed([node |-> "If", condition |-> frame.head.condition,
                        then_body |-> frame.body, else_body |-> None])
          [] OTHER ->
                Closed([node |-> "If", condition |-> frame.head.condition,
                        then_body |-> frame.head.then_body,
                        else_body |-> [k |-> "list", items |-> frame.body]])

(* What the calls a step makes return at a cursor position.  They depend   *)
(* on the token list alone, and are set down for every position when the   *)
(* parser is made, so that a step reads them off: parse_statement for a    *)
(* statement without a body, the header of a block, the condition after    *)
(* UNTIL.                                                                  *)
CallsAt(tokens, pos) ==
    LET opener == current_token(tokens, skip_newlines(tokens, pos)).type \in Openers
    IN  [ statement |-> IF opener THEN PErr(pos, 0) ELSE parse_statement(tokens, pos),
          opened |-> IF opener THEN open_block(tokens, skip_newlines(tokens, pos))
                     ELSE NotOpened(pos, 0),
          condition |-> IF current_token(tokens, pos).type = "UNTIL"
                        THEN parse_condition(tokens, pos + 1) ELSE PErr(pos, 0) ]

(* parser = Parser(tokens), and parse() entered: the top-level loop. *)
Begin ==
    /\ stage = "lexed"
    /\ parser' = [tokens |-> lexer.tokens, pos |-> 0,
                  frames |-> <<Frame("Program", {"EOF"}, <<>>)>>,
                  calls |-> [p \in 0..(Len(lexer.tokens) - 1) |->
                                CallsAt(lexer.tokens, p)]]
    /\ stage' = "parsing"
    /\ UNCHANGED <<input, source, lexer, ast, generator, exc, asm, cpu, session>>

(* if stmt: body.append(stmt), then skip_newlines(), in the innermost loop. *)
Appended(frames, node) ==
    [frames EXCEPT ![Len(frames)].body = IF node # None THEN Append(@, node) ELSE @]

(* The state one step of the loops leaves: the cursor and the frames, and  *)
(* how the call stands (still parsing, returned, raised).                  *)
Stepped ==
    LET tokens == parser.tokens
        frames == parser.frames
        frame == frames[Len(frames)]
        At(pos) == current_token(tokens, pos).type
        Raised(pos, line) ==
            [parser |-> [parser EXCEPT !.pos = pos], stage |-> "parse_raised",
             exc |-> [kind |-> "SyntaxError", line |-> line], ast |-> ast]
        Goes(pos, f) ==
            [parser |-> [parser EXCEPT !.pos = pos, !.frames = f], stage |-> stage,
             exc |-> exc, ast |-> ast]
        Returns ==
            [parser |-> [parser EXCEPT !.frames = <<>>], stage |-> "parsed", exc |-> exc,
             ast |-> [node |-> "Program", statements |-> frame.body]]
        Close(r) ==
            IF ~r.ok THEN Raised(r.pos, r.line)
            ELSE IF r.node = None
            THEN Goes(r.pos, [frames EXCEPT ![Len(frames)] = r.frame])
            ELSE Goes(skip_newlines(tokens, r.pos),
                      Appended(SubSeq(frames, 1, Len(frames) - 1), r.node))
        Open(r) ==
            IF ~r.ok THEN Raised(r.pos, r.line) ELSE Goes(r.pos, Append(frames, r.frame))
        Statement(r) ==
            IF ~r.ok THEN Raised(r.pos, r.line)
            ELSE Goes(skip_newlines(tokens, r.pos), Appended(frames, r.node))
        calls == parser.calls[parser.pos]
    IN  IF At(parser.pos) \in frame.terminators
        THEN IF frame.kind = "Program" THEN Returns
             ELSE Close(close_block(tokens, parser.pos, frame, calls.condition))
        ELSE IF At(skip_newlines(tokens, parser.pos)) \in Openers
        THEN Open(calls.opened)
        ELSE Statement(calls.statement)

Iterate ==
    /\ stage = "parsing"
    /\ LET Then(r) ==
               /\ parser' = r.parser
               /\ stage' = r.stage
               /\ exc' = r.exc
               /\ ast' = r.ast
       IN  Then(Stepped)
    /\ UNCHANGED <<input, source, lexer, generator, asm, cpu, session>>

(* The token a caller of the parser makes of a lexeme: a keyword of the    *)
(* language, a register, a number, a comparison operator, a comma, or an   *)
(* identifier.                                                             *)
TokenOf(word, line) ==
    LET text == Text(word)
    IN  CASE word \in LanguageKeywords -> Token(text, StrV(word), line, 1)
          [] text \in {"R1", "R2", "R3"} -> Token("REGISTER", StrV(word), line, 1)
          [] \A i \in DOMAIN word : IsDigit(word[i]) ->
                Token("NUMBER", int(word, 10), line, 1)
          [] text = "==" -> Token("EQ", StrV(word), line, 1)
          [] text = "," -> Token("COMMA", StrV(word), line, 1)
          [] OTHER -> Token("IDENTIFIER", StrV(word), line, 1)
RECURSIVE TokensOf(_, _, _)
TokensOf(lines, n, last) ==
    IF n > Len(lines)
    THEN <<Token("EOF", None, IF last THEN n ELSE n - 1, 1)>>
    ELSE [i \in DOMAIN lines[n] |-> TokenOf(lines[n][i], n)]
         \o (IF n < Len(lines) \/ last THEN <<Token("NEWLINE", StrV(NL), n, 1)>> ELSE <<>>)
         \o TokensOf(lines, n + 1, last)

LoopInit ==
    /\ input = None
    /\ source = <<>>
    /\ stage = "idle"
    /\ lexer = NewLexer
    /\ parser = NewParser(<<>>)
    /\ ast = None
    /\ generator = NewGenerator
    /\ exc = NoExc
    /\ asm = <<>>
    /\ cpu = PowerOff
    /\ session = NewSession(<<>>)

(* A caller hands a token list that ends with EOF to the parser. *)
Receive ==
    /\ stage = "idle"
    /\ input' \in LineInputs
    /\ lexer' = [lexer EXCEPT !.tokens = TokensOf(input'.prog, 1, input'.layout = "newline")]
    /\ stage' = "lexed"
    /\ UNCHANGED <<source, parser, ast, generator, exc, asm, cpu, session>>

LoopNext == Receive \/ Begin \/ Iterate

(* A call of parse that has been made runs on: the next step of its loops  *)
(* is taken in the end.                                                    *)
LoopSpec == LoopInit /\ [][LoopNext]_vars /\ WF_vars(Iterate)

(* The steps agree with parse as a whole. *)
StepsAgree ==
    LET r == parse(lexer.tokens, 0)
    IN  /\ stage = "parsed" => r.ok /\ r.node = ast /\ r.pos = parser.pos
        /\ stage = "parse_raised" => ~r.ok /\ r.line = exc.line

Returned == stage \in {"parsed", "parse_raised", "lex_raised"}
AtEOF == current_token(parser.tokens, parser.pos).type = "EOF"

(* C30: Parser.parse terminates on every token list that ends with EOF:    *)
(* every iteration of the top-level loop and of a block-body loop advances *)
(* the cursor by at least one token or raises a syntax error; at EOF       *)
(* inside a block the next step raises; a Program is returned only at EOF  *)
(* with no block open.                                                     *)
C30_ParseTerminates ==
    /\ [][stage = "parsing" =>
            /\ parser'.pos > parser.pos \/ stage' \in {"parsed", "parse_raised"}
            /\ (AtEOF /\ Len(parser.frames) > 1) => stage' = "parse_raised"
            /\ stage' = "parsed" => AtEOF /\ Len(parser.frames) = 1]_vars
    /\ stage = "parsing" ~> Returned

(* WHILE R1 == 10 / HALT without ENDWHILE: the loop of the block was open  *)
(* at EOF and the call has raised SyntaxError there.                       *)
C30_MissingEndRaised ==
    /\ input # None
    /\ input.prog = << <<Word("WHILE")>> \o Condition, <<Word("HALT")>> >>
    /\ stage = "parse_raised"
    /\ Len(parser.frames) = 2
    /\ parser.frames[2].kind = "While"
    /\ parser.frames[2].body = <<[node |-> "Halt"]>>
    /\ AtEOF
    /\ exc.kind = "SyntaxError"

====
